---- MODULE Spec2Model ----
(***************************************************************************)
(* A model of the wp-migration-tool: the batch drivers, the extraction     *)
(* entry points with their quality gate, the find/replace handlers of the *)
(* web front end and the two WXR serializers.                              *)
(*                                                                         *)
(* Text is modelled as Python models it: a string is a sequence of code    *)
(* points (integers), so that ord(), str.replace and slicing are computed  *)
(* as the code computes them.                                              *)
(***************************************************************************)
EXTENDS Integers, Sequences, FiniteSets, TLC

VARIABLES
    \* ---- serializer, content:encoded of one post (SpecCdata)
    serPc,          \* "input" | "fixed" | "modern": which serializer ran
    serContent,     \* post['content'] handed to the serializer
    serClean,       \* the cleaned content (clean_content_for_cdata / clean_xml_content)
    serElem,        \* content:encoded as emitted: [cdata, body]
    \* ---- serializer, escaped text fields (SpecEscape)
    escPc,          \* "input" | "done"
    escText,        \* title / url / author / slug / label
    escOut,         \* escape_xml_text(text)
    \* ---- serializer, wp:post_id over several runs (SpecPostId)
    pidHash,        \* per process: <<>> before it starts, then the str hash of each URL
    pidEmitted,     \* the wp:post_id values written: records [proc, url, id]
    \* ---- the batch drivers (SpecDrivers)
    drvKind,        \* "batch_extract" | "process_urls" | "scraper_main"
    drvUrls,        \* the URL list of the run
    drvIdx,         \* number of URLs whose loop body has run
    drvPc,          \* "start" | "loop" | "sleep" | "summary" | "setup_failed" | "aborted"
    drvDriver,      \* BrowserScraper.driver is set
    drvPosts,       \* posts / scraper.posts: the URLs of the appended posts
    drvFailed,      \* failed: the URLs recorded as failed
    drvLog,         \* the calls made so far: <<"extract", i>>, <<"sleep", i>>
    \* ---- one extraction entry point under its driver (SpecExtract)
    exEntry,        \* "smart" | "modern" | "browser"
    exPc,           \* "start" | "method2" | "returned" | "done"
    exFetch,        \* the documents fetched for the current URL, one per attempt
    exResult1,      \* what the first method produced
    exResult2,      \* what the second method produced
    exReturn,       \* the value the entry point returned
    exTaken,        \* number of URLs the driver has finished
    exBatch,        \* posts: the records the driver appended
    \* ---- the find/replace handlers of the web front end (SpecApp)
    appPosts,       \* session_data[sid]['posts']
    appPreview,     \* session_data[sid]['preview_data'] (+ search/replace)
    appGlobal,      \* session_data[sid]['global_matches'] (+ search/replace)
    appModified,    \* session_data[sid]['modified']
    appResp,        \* the response of the last request
    appRequests,    \* number of requests the session has served
    appOriginal,    \* session_data[sid]['original_posts']
    appDownload,    \* the content:encoded elements of the document in appResp
    \* ---- the serializers, the whole document of a batch (SpecDocument)
    docPc,          \* "input" | "fixed" | "modern": which serializer ran
    docPosts,       \* posts: the batch handed to the serializer
    docXml,         \* the document returned
    \* ---- one call of a function of the pipeline (SpecSlug, ...)
    callFn,         \* "input", then the function that was called
    callArg,        \* its arguments
    callRet,        \* the value it returned
    \* ---- the request handlers on one session (SpecSession)
    sesData,        \* app_data[session_id]: [urls, posts, status]
    sesReq          \* per thread: the request it serves and where it stands

drvVars == <<drvKind, drvUrls, drvIdx, drvPc, drvDriver, drvPosts, drvFailed, drvLog>>
serVars == <<serPc, serContent, serClean, serElem>>
escVars == <<escPc, escText, escOut>>
pidVars == <<pidHash, pidEmitted>>
exVars == <<exEntry, exPc, exFetch, exResult1, exResult2, exReturn, exTaken, exBatch>>
appVars == <<appPosts, appPreview, appGlobal, appModified, appResp, appRequests,
             appOriginal, appDownload>>
docVars == <<docPc, docPosts, docXml>>
callVars == <<callFn, callArg, callRet>>
sesVars == <<sesData, sesReq>>
fnVars == <<docVars, callVars, sesVars>>
coreVars == <<serVars, escVars, pidVars, drvVars, exVars, appVars>>
vars == <<serVars, escVars, pidVars, drvVars, exVars, appVars, fnVars>>

--------------------------------------------------------------------------
(* Code points the model names ("&" is 38, "<" is 60, ...); every other   *)
(* literal is written as the tuple of its code points, the text beside it. *)
ChSpace == 32
ChQuot == 34
ChAmp == 38
ChApos == 39
ChLt == 60
ChGt == 62
ChRBracket == 93
ChX == 120

--------------------------------------------------------------------------
(* Python string primitives.                                               *)

\* s[i:] starts with pat, i a 1-based position
StartsWithAt(s, i, pat) ==
    /\ i + Len(pat) - 1 <= Len(s)
    /\ \A k \in 1..Len(pat) : s[i + k - 1] = pat[k]

\* pat in s
Contains(s, pat) == \E i \in 1..(Len(s) + 1) : StartsWithAt(s, i, pat)

\* the 0-based index of the first occurrence of pat at or after the 1-based
\* position i, -1 when there is none
FindFrom(s, pat, i) ==
    LET hits == { j \in i..(Len(s) - Len(pat) + 1) : StartsWithAt(s, j, pat) }
    IN  IF hits = {} THEN -1 ELSE (CHOOSE j \in hits : \A k \in hits : j <= k) - 1

\* s.find(pat, start): 0-based index of the first occurrence at or after
\* the 0-based start, -1 when there is none
StrFind(s, pat, start) == FindFrom(s, pat, start + 1)

RECURSIVE ReplaceFrom(_, _, _, _)
\* the replacement from position i on: up to the next occurrence as it is,
\* new for the occurrence, and on behind it
ReplaceFrom(s, i, old, new) ==
    LET at == FindFrom(s, old, i)
    IN  IF at = -1 THEN SubSeq(s, i, Len(s))
        ELSE SubSeq(s, i, at) \o new \o ReplaceFrom(s, at + 1 + Len(old), old, new)

\* s.replace(old, new) for a non-empty old: leftmost, non-overlapping
StrReplace(s, old, new) == ReplaceFrom(s, 1, old, new)

\* s[lo:hi] with 0-based lo, hi (0 <= lo, hi)
Slice(s, lo, hi) ==
    LET h == IF hi > Len(s) THEN Len(s) ELSE hi
    IN  IF lo >= h THEN <<>> ELSE SubSeq(s, lo + 1, h)

\* ''.join(ss)
Flatten(ss) ==
    LET RECURSIVE Join(_, _)
        Join(lo, hi) ==
            IF lo > hi THEN <<>>
            ELSE IF lo = hi THEN ss[lo]
            ELSE Join(lo, (lo + hi) \div 2) \o Join((lo + hi) \div 2 + 1, hi)
    IN  Join(1, Len(ss))

--------------------------------------------------------------------------
(* fixed_extractor.py: the hand-written serializer.                        *)

\* the test of the character loop: the XML 1.0 Char production
\* (the same test without the gap 0xD800-0xDFFF of the surrogates)
IsValidXmlChar_NoSurrogateGap(code) ==
    \/ code = 9 \/ code = 10 \/ code = 13
    \/ (32 <= code /\ code <= 65533)
    \/ (65536 <= code /\ code <= 1114111)

\* 0x09, 0x0A, 0x0D, 0x20-0xD7FF, 0xE000-0xFFFD, 0x10000-0x10FFFF
IsValidXmlChar(code) ==
    \/ code = 9 \/ code = 10 \/ code = 13
    \/ (32 <= code /\ code <= 55295)
    \/ (57344 <= code /\ code <= 65533)
    \/ (65536 <= code /\ code <= 1114111)

\* valid_chars = [char for char in content if valid]; ''.join(valid_chars)
KeepValidChars(content) == SelectSeq(content, IsValidXmlChar)

CdataEnd == <<ChRBracket, ChRBracket, ChGt>>
CdataEndBroken == <<ChRBracket, ChRBracket, ChSpace, ChGt>>

\* the same two steps in the other order: break the terminator, then strip
CleanContentForCdata_ReplaceFirst(content) ==
    IF content = <<>> THEN <<>>
    ELSE KeepValidChars(StrReplace(content, CdataEnd, CdataEndBroken))

\* the cleaning without its last step, the replacement of the terminator
CleanContentForCdata_NoGuard(content) == KeepValidChars(content)

CleanContentForCdata(content) ==
    IF content = <<>> THEN <<>>
    ELSE StrReplace(KeepValidChars(content), CdataEnd, CdataEndBroken)

EntAmp == <<38, 97, 109, 112, 59>>   \* &amp;
EntLt == <<38, 108, 116, 59>>   \* &lt;
EntGt == <<38, 103, 116, 59>>   \* &gt;
EntQuot == <<38, 113, 117, 111, 116, 59>>   \* &quot;
EntApos == <<38, 35, 51, 57, 59>>   \* &#39;

\* the five replacements with the ampersand handled last
EscapeXmlText_AmpLast(text) ==
    IF text = <<>> THEN <<>>
    ELSE LET t1 == StrReplace(text, <<ChLt>>, EntLt)
             t2 == StrReplace(t1, <<ChGt>>, EntGt)
             t3 == StrReplace(t2, <<ChQuot>>, EntQuot)
             t4 == StrReplace(t3, <<ChApos>>, EntApos)
         IN  StrReplace(t4, <<ChAmp>>, EntAmp)

EscapeXmlText(text) ==
    IF text = <<>> THEN <<>>
    ELSE LET t1 == StrReplace(text, <<ChAmp>>, EntAmp)
             t2 == StrReplace(t1, <<ChLt>>, EntLt)
             t3 == StrReplace(t2, <<ChGt>>, EntGt)
             t4 == StrReplace(t3, <<ChQuot>>, EntQuot)
         IN  StrReplace(t4, <<ChApos>>, EntApos)

--------------------------------------------------------------------------
(* modern_extractor.py: the ElementTree serializer and its cleaning.       *)

HrefOpen == <<104, 114, 101, 102, 61, 34>>             \* href="
HrefEmpty == <<104, 114, 101, 102, 61, 34, 34>>        \* href=""
HrefSlash == <<104, 114, 101, 102, 61, 34, 47, 34>>    \* href="/"

\* \s of a str pattern: the characters str.isspace() holds for
IsSpaceChar(c) ==
    \/ (9 <= c /\ c <= 13) \/ (28 <= c /\ c <= 32) \/ c = 133 \/ c = 160
    \/ c = 5760 \/ (8192 <= c /\ c <= 8202) \/ c = 8232 \/ c = 8233
    \/ c = 8239 \/ c = 8287 \/ c = 12288

RECURSIVE SpaceRunEnd(_, _)
SpaceRunEnd(s, i) ==
    IF i <= Len(s) /\ IsSpaceChar(s[i]) THEN SpaceRunEnd(s, i + 1) ELSE i

\* re.sub(r'href="\s+"', 'href="/"', content)
RECURSIVE SubBlankHrefFrom(_, _)
SubBlankHrefFrom(s, i) ==
    LET End(k) == SpaceRunEnd(s, k + Len(HrefOpen))
        hits == { k \in i..Len(s) :
                    /\ StartsWithAt(s, k, HrefOpen)
                    /\ End(k) > k + Len(HrefOpen)
                    /\ End(k) <= Len(s)
                    /\ s[End(k)] = ChQuot }
    IN  IF hits = {} THEN SubSeq(s, i, Len(s))
        ELSE LET k == CHOOSE h \in hits : \A g \in hits : h <= g
             IN  SubSeq(s, i, k - 1) \o HrefSlash \o SubBlankHrefFrom(s, End(k) + 1)

FixEmptyHrefs(content) ==
    IF content = <<>> THEN content
    ELSE SubBlankHrefFrom(StrReplace(content, HrefEmpty, HrefSlash), 1)

(* BeautifulSoup(content, 'html.parser') as a flat list of tokens, a tag or *)
(* a run of text. Modelled for the markup the posts hold: tags closed by   *)
(* '>', elements of one name not nested in each other, text without        *)
(* character references.                                                   *)
IsLetter(c) == (97 <= c /\ c <= 122) \/ (65 <= c /\ c <= 90)

IsTagStart(s, j) ==
    /\ j < Len(s)
    /\ s[j] = ChLt
    /\ (IsLetter(s[j + 1]) \/ s[j + 1] = 47)
    /\ StrFind(s, <<ChGt>>, j) # -1

\* the position of the next tag at or after i, past the end when none
NextTagStart(s, i) ==
    LET hits == { j \in i..Len(s) : IsTagStart(s, j) }
    IN  IF hits = {} THEN (IF i > Len(s) THEN i ELSE Len(s) + 1)
        ELSE CHOOSE j \in hits : \A k \in hits : j <= k

RECURSIVE TokensFrom(_, _)
TokensFrom(s, i) ==
    IF i > Len(s) THEN <<>>
    ELSE IF IsTagStart(s, i)
         THEN LET j == StrFind(s, <<ChGt>>, i) + 1
              IN  <<[tag |-> TRUE, s |-> SubSeq(s, i, j)]>> \o TokensFrom(s, j + 1)
         ELSE LET j == NextTagStart(s, i + 1)
              IN  <<[tag |-> FALSE, s |-> SubSeq(s, i, j - 1)]>> \o TokensFrom(s, j)

SoupTokens(content) == TokensFrom(content, 1)

RECURSIVE NameEnd(_, _)
NameEnd(s, i) ==
    IF i <= Len(s) /\ IsLetter(s[i]) THEN NameEnd(s, i + 1) ELSE i

\* the name of a start tag, <<>> for an end tag or text
StartTagName(tok) ==
    IF tok.tag /\ tok.s[2] # 47 THEN SubSeq(tok.s, 2, NameEnd(tok.s, 2) - 1) ELSE <<>>

EndTagOf(name) == <<ChLt, 47>> \o name \o <<ChGt>>

RECURSIVE ElementEnd(_, _, _)
\* the token closing the element opened before token k (the last token when
\* the element is never closed)
ElementEnd(toks, k, name) ==
    IF k >= Len(toks) THEN Len(toks)
    ELSE IF toks[k].tag /\ toks[k].s = EndTagOf(name) THEN k
    ELSE ElementEnd(toks, k + 1, name)

RECURSIVE StripLeft(_)
StripLeft(s) == IF s # <<>> /\ IsSpaceChar(Head(s)) THEN StripLeft(Tail(s)) ELSE s

RECURSIVE StripRight(_)
StripRight(s) ==
    IF s # <<>> /\ IsSpaceChar(s[Len(s)]) THEN StripRight(SubSeq(s, 1, Len(s) - 1)) ELSE s

\* str.strip()
Strip(s) == StripRight(StripLeft(s))

\* the output formatter of str(soup): text with & < > as entities
SoupText(t) == StrReplace(StrReplace(StrReplace(t, <<ChAmp>>, EntAmp), <<ChLt>>, EntLt), <<ChGt>>, EntGt)

SoupTokenStr(tok) == IF tok.tag THEN tok.s ELSE SoupText(tok.s)

RECURSIVE TokensStr(_, _, _, _)
\* str() of the tokens lo..hi that are not in the removed set
TokensStr(toks, lo, hi, removed) ==
    IF lo > hi THEN <<>>
    ELSE (IF lo \in removed THEN <<>> ELSE SoupTokenStr(toks[lo]))
         \o TokensStr(toks, lo + 1, hi, removed)

RECURSIVE TokensText(_, _, _)
\* get_text(strip=True) of the tokens lo..hi
TokensText(toks, lo, hi) ==
    IF lo > hi THEN <<>>
    ELSE (IF toks[lo].tag THEN <<>> ELSE Strip(toks[lo].s)) \o TokensText(toks, lo + 1, hi)

TagUl == <<117, 108>>   \* ul
TagOl == <<111, 108>>   \* ol
TagP == <<112>>         \* p
MinDupParagraph == 50

RECURSIVE DupLists(_, _, _)
\* the first loop: a list whose str() was seen before is marked for removal
DupLists(toks, k, acc) ==
    IF k > Len(toks) THEN acc
    ELSE IF StartTagName(toks[k]) \in {TagUl, TagOl}
         THEN LET e == ElementEnd(toks, k + 1, StartTagName(toks[k]))
                  html == TokensStr(toks, k, e, {})
              IN  IF html \in acc.seen
                  THEN DupLists(toks, k + 1, [acc EXCEPT !.removed = @ \cup (k..e)])
                  ELSE DupLists(toks, k + 1, [acc EXCEPT !.seen = @ \cup {html}])
         ELSE DupLists(toks, k + 1, acc)

RECURSIVE DupParagraphs(_, _, _)
\* the second loop: a paragraph of more than 50 characters whose text was seen
DupParagraphs(toks, k, acc) ==
    IF k > Len(toks) THEN acc
    ELSE IF StartTagName(toks[k]) = TagP
         THEN LET e == ElementEnd(toks, k + 1, TagP)
                  text == TokensText(toks, k, e)
              IN  IF Len(text) > MinDupParagraph
                  THEN IF text \in acc.seen
                       THEN DupParagraphs(toks, k + 1, [acc EXCEPT !.removed = @ \cup (k..e)])
                       ELSE DupParagraphs(toks, k + 1, [acc EXCEPT !.seen = @ \cup {text}])
                  ELSE DupParagraphs(toks, k + 1, acc)
         ELSE DupParagraphs(toks, k + 1, acc)

RemoveDuplicateSections(content) ==
    IF content = <<>> THEN content
    ELSE LET toks == SoupTokens(content)
             lists == DupLists(toks, 1, [seen |-> {}, removed |-> {}])
             paras == DupParagraphs(toks, 1, lists)
         IN  TokensStr(toks, 1, Len(toks), paras.removed)

CleanXmlContent(content) ==
    IF content = <<>> THEN <<>>
    ELSE KeepValidChars(RemoveDuplicateSections(FixEmptyHrefs(content)))

\* ET.tostring on the text of an element: & < > become entities, and an
\* element whose text is empty is written self-closed
ETElement(text) ==
    [selfClosed |-> text = <<>>,
     text |-> StrReplace(StrReplace(StrReplace(text, <<ChAmp>>, EntAmp), <<ChLt>>, EntLt), <<ChGt>>, EntGt)]

CdataOpen == <<60, 33, 91, 67, 68, 65, 84, 65, 91>>   \* <![CDATA[

\* add_cdata_to_content on one content:encoded element: the pattern matches
\* an element with a start and an end tag (the text holds no '<' any more)
AddCdataToContent(elem) ==
    IF elem.selfClosed THEN [cdata |-> FALSE, body |-> <<>>]
    ELSE IF StartsWithAt(elem.text, 1, CdataOpen) THEN [cdata |-> FALSE, body |-> elem.text]
    ELSE [cdata |-> TRUE, body |-> elem.text]

\* content:encoded of one post in generate_wordpress_xml
ModernContentEncoded(content) == AddCdataToContent(ETElement(CleanXmlContent(content)))

\* content:encoded of one post in generate_wordpress_xml_fixed
FixedContentEncoded(content) == [cdata |-> TRUE, body |-> CleanContentForCdata(content)]

--------------------------------------------------------------------------
(* Bounds of the model.                                                    *)
MaxSerPieces == 2
MaxUrls == 3
MaxEscPieces == 3
NumProcs == 2
NumUrls == 2
NumPageVersions == 2
MaxExUrls == 2
MaxPosts == 2
MaxNodes == 2
MaxRequests == 2
MaxBatch == 2
SlugPad == 10
MaxBlocks == 2
MaxLines == 2
MaxAnchors == 2
MaxLinks == 2
MaxThreads == 2
MaxSessionUrls == 2
MaxMatches == 2
MaxSessionRequests == 3

--------------------------------------------------------------------------
(* The idle value of each component, for the specifications that do not    *)
(* run it.                                                                 *)
SerIdle == serPc = "idle" /\ serContent = <<>> /\ serClean = <<>> /\ serElem = [cdata |-> FALSE, body |-> <<>>]
EscIdle == escPc = "idle" /\ escText = <<>> /\ escOut = <<>>
PidIdle == pidHash = <<>> /\ pidEmitted = {}
DrvIdle ==
    /\ drvKind = "idle" /\ drvUrls = <<>> /\ drvIdx = 0 /\ drvPc = "idle"
    /\ drvDriver = FALSE /\ drvPosts = <<>> /\ drvFailed = <<>> /\ drvLog = <<>>
ExIdle ==
    /\ exEntry = "idle" /\ exPc = "idle" /\ exFetch = <<>> /\ exResult1 = <<>>
    /\ exResult2 = <<>> /\ exReturn = <<>> /\ exTaken = 0 /\ exBatch = <<>>
AppIdle ==
    /\ appPosts = <<>> /\ appPreview = <<>> /\ appGlobal = <<>> /\ appModified = FALSE
    /\ appResp = <<>> /\ appRequests = 0
    /\ appOriginal = <<>> /\ appDownload = <<>>
DocIdle == docPc = "idle" /\ docPosts = <<>> /\ docXml = <<>>
CallIdle == callFn = "idle" /\ callArg = <<>> /\ callRet = <<>>
SesIdle ==
    /\ sesData = [urls |-> <<>>, posts |-> <<>>, status |-> "ready"]
    /\ sesReq = <<>>
FnIdle == DocIdle /\ CallIdle /\ SesIdle
CoreIdle == SerIdle /\ EscIdle /\ PidIdle /\ DrvIdle /\ ExIdle /\ AppIdle

--------------------------------------------------------------------------
(* SpecCdata: one post's content through either serializer.                *)

LongText == [i \in 1..(MinDupParagraph + 1) |-> ChX]
LongParagraph == <<60, 112, 62>> \o LongText \o <<60, 47, 112, 62>>   \* <p>xx...x</p>

\* the contents the posts are built from: the characters of the terminator,
\* code points on both sides of every range bound, and whole elements
SerPieces ==
    { <<ChRBracket>>, <<ChRBracket, ChRBracket>>, <<ChGt>>, CdataEnd,
      <<ChRBracket, ChRBracket, 11>>, <<ChSpace>>, <<ChX>>,
      <<8>>, <<9>>, <<10>>, <<13>>, <<31>>, <<55295>>, <<55296>>, <<57343>>,
      <<57344>>, <<65533>>, <<65534>>, <<65536>>, <<1114111>>,
      <<60, 97, 32, 104, 114, 101, 102, 61, 34, 47, 111, 34, 62, 120, 60, 47, 97, 62>>,   \* <a href="/o">x</a>
      <<60, 97, 32, 104, 114, 101, 102, 61, 34, 34, 62, 120, 60, 47, 97, 62>>,   \* <a href="">x</a>
      <<60, 97, 32, 104, 114, 101, 102, 61, 34, 32, 34, 62, 120, 60, 47, 97, 62>>,   \* <a href=" ">x</a>
      <<60, 117, 108, 62, 60, 108, 105, 62, 120, 60, 47, 108, 105, 62, 60, 47, 117, 108, 62>>,   \* <ul><li>x</li></ul>
      LongParagraph }

PieceSeqs(pieces, n) == UNION { [1..k -> pieces] : k \in 0..n }

SerContents == { Flatten(ps) : ps \in PieceSeqs(SerPieces, MaxSerPieces) }

SerInit ==
    /\ serPc = "input"
    /\ serContent \in SerContents
    /\ serClean = <<>>
    /\ serElem = [cdata |-> FALSE, body |-> <<>>]

\* generate_wordpress_xml_fixed, the content:encoded line of one post
SerializeFixed ==
    /\ serPc = "input"
    /\ serPc' = "fixed"
    /\ serClean' = CleanContentForCdata(serContent)
    /\ serElem' = FixedContentEncoded(serContent)
    /\ UNCHANGED <<serContent, escVars, pidVars, drvVars, exVars, appVars, fnVars>>

\* generate_wordpress_xml, the content:encoded element of one post
SerializeModern ==
    /\ serPc = "input"
    /\ serPc' = "modern"
    /\ serClean' = CleanXmlContent(serContent)
    /\ serElem' = ModernContentEncoded(serContent)
    /\ UNCHANGED <<serContent, escVars, pidVars, drvVars, exVars, appVars, fnVars>>

CdataInit == SerInit /\ EscIdle /\ PidIdle /\ DrvIdle /\ ExIdle /\ AppIdle /\ FnIdle
CdataNext == SerializeFixed \/ SerializeModern
SpecCdata == CdataInit /\ [][CdataNext]_vars

--------------------------------------------------------------------------
(* SpecEscape: one text field through escape_xml_text.                     *)

EscPieces ==
    { <<ChAmp>>, <<ChLt>>, <<ChGt>>, <<ChQuot>>, <<ChApos>>, <<97>>, <<59>>,
      EntAmp, EntLt, EntApos }

EscTexts == { Flatten(ps) : ps \in PieceSeqs(EscPieces, MaxEscPieces) }

EscInit == escPc = "input" /\ escText \in EscTexts /\ escOut = <<>>

\* title = escape_xml_text(post['title']) and the like
EscapeField ==
    /\ escPc = "input"
    /\ escPc' = "done"
    /\ escOut' = EscapeXmlText(escText)
    /\ UNCHANGED <<escText, serVars, pidVars, drvVars, exVars, appVars, fnVars>>

EscapeInit == EscInit /\ SerIdle /\ PidIdle /\ DrvIdle /\ ExIdle /\ AppIdle /\ FnIdle
EscapeNext == EscapeField
SpecEscape == EscapeInit /\ [][EscapeNext]_vars

--------------------------------------------------------------------------
(* SpecPostId: the same URLs serialized in several processes.              *)

Procs == 1..NumProcs
Urls == 1..NumUrls
PostIdModulus == 1000000

\* values hash() of a str can take (a signed machine word)
HashValues == {-7, 3, 2000003}

PidInit == pidHash = [p \in Procs |-> <<>>] /\ pidEmitted = {}

\* the interpreter starts: str hashing is salted with a value drawn per
\* process (PYTHONHASHSEED unset), fixed until the process ends
StartProcess(p) ==
    /\ pidHash[p] = <<>>
    /\ \E h \in [Urls -> HashValues] : pidHash' = [pidHash EXCEPT ![p] = h]
    /\ UNCHANGED <<pidEmitted, serVars, escVars, drvVars, exVars, appVars, fnVars>>

\* hash(post['url'])
PyHash(p, url) == pidHash[p][url]

\* post_id = str(hash(post['url']) % 1000000)
PostId(p, url) == PyHash(p, url) % PostIdModulus

\* one post of a batch is written by process p
EmitPostId(p, url) ==
    /\ pidHash[p] # <<>>
    /\ pidEmitted' = pidEmitted \cup {[proc |-> p, url |-> url, id |-> PostId(p, url)]}
    /\ UNCHANGED <<pidHash, serVars, escVars, drvVars, exVars, appVars, fnVars>>

PostIdInit == PidInit /\ SerIdle /\ EscIdle /\ DrvIdle /\ ExIdle /\ AppIdle /\ FnIdle
PostIdNext ==
    \/ \E p \in Procs : StartProcess(p)
    \/ \E p \in Procs, u \in Urls : EmitPostId(p, u)
SpecPostId == PostIdInit /\ [][PostIdNext]_vars

--------------------------------------------------------------------------
(* SpecDrivers: the three loops that run a URL list.                       *)
(*   batch_extract   batch_extract.py, over smart_extractor                 *)
(*   process_urls    BrowserScraper.process_urls, called by the main of     *)
(*                   browser_scraper.py on a scraper just constructed       *)
(*   scraper_main    the loop of extractors/browser_scraper.py main and of  *)
(*                   run_scraper.py main                                    *)

DriverKinds == {"batch_extract", "process_urls", "scraper_main"}
UrlLists == UNION { [1..n -> Urls] : n \in 1..MaxUrls }

DrvInit ==
    /\ drvKind \in DriverKinds
    /\ drvUrls \in UrlLists
    /\ drvIdx = 0
    /\ drvPc = "start"
    /\ drvDriver = FALSE
    /\ drvPosts = <<>>
    /\ drvFailed = <<>>
    /\ drvLog = <<>>

\* the outcomes of one call of an extraction entry point
Outcomes == {"post", "none", "raise"}

\* the loops of batch_extract and process_urls start at once
DrvEnterLoop ==
    /\ drvPc = "start"
    /\ drvKind \in {"batch_extract", "process_urls"}
    /\ drvPc' = "loop"
    /\ UNCHANGED <<drvKind, drvUrls, drvIdx, drvDriver, drvPosts, drvFailed, drvLog>>
    /\ UNCHANGED <<serVars, escVars, pidVars, exVars, appVars, fnVars>>

\* main: scraper.setup_driver() inside the outer try; a failure ends the run
\* in the outer except before any URL
MainSetupDriver ==
    /\ drvPc = "start"
    /\ drvKind = "scraper_main"
    /\ \E ok \in BOOLEAN :
          /\ drvDriver' = ok
          /\ drvPc' = IF ok THEN "loop" ELSE "setup_failed"
    /\ UNCHANGED <<drvKind, drvUrls, drvIdx, drvPosts, drvFailed, drvLog>>
    /\ UNCHANGED <<serVars, escVars, pidVars, exVars, appVars, fnVars>>

\* what follows the body of iteration i in the loops that sleep
AfterBody(i) == IF i < Len(drvUrls) THEN "sleep" ELSE "loop"

\* batch_extract, one iteration: try / extract_blog_post / except Exception
BatchExtractStep ==
    /\ drvPc = "loop"
    /\ drvKind = "batch_extract"
    /\ drvIdx < Len(drvUrls)
    /\ LET i == drvIdx + 1 IN
       \E out \in Outcomes :
          /\ drvPosts' = IF out = "post" THEN Append(drvPosts, drvUrls[i]) ELSE drvPosts
          /\ drvFailed' = IF out = "post" THEN drvFailed ELSE Append(drvFailed, drvUrls[i])
          /\ drvIdx' = i
          /\ drvLog' = Append(drvLog, <<"extract", i>>)
    /\ UNCHANGED <<drvKind, drvUrls, drvPc, drvDriver>>
    /\ UNCHANGED <<serVars, escVars, pidVars, exVars, appVars, fnVars>>

\* BrowserScraper.extract_content as its caller sees it: the driver is set up
\* before the try when there is none (setup_driver re-raises), everything
\* after that is inside try / except Exception: return None
ExtractContentOutcomes(driverSet) ==
    IF driverSet THEN {[out |-> o, driver |-> TRUE] : o \in {"post", "none"}}
    ELSE {[out |-> o, driver |-> TRUE] : o \in {"post", "none"}}
         \cup {[out |-> "raise", driver |-> FALSE]}

\* process_urls, one iteration: no try around extract_content
ProcessUrlsStep ==
    /\ drvPc = "loop"
    /\ drvKind = "process_urls"
    /\ drvIdx < Len(drvUrls)
    /\ LET i == drvIdx + 1 IN
       \E r \in ExtractContentOutcomes(drvDriver) :
          /\ drvDriver' = r.driver
          /\ drvLog' = Append(drvLog, <<"extract", i>>)
          /\ IF r.out = "raise"
             THEN /\ drvPc' = "aborted"
                  /\ UNCHANGED <<drvIdx, drvPosts>>
             ELSE /\ drvPosts' = IF r.out = "post" THEN Append(drvPosts, drvUrls[i]) ELSE drvPosts
                  /\ drvIdx' = i
                  /\ drvPc' = AfterBody(i)
    /\ UNCHANGED <<drvKind, drvUrls, drvFailed>>
    /\ UNCHANGED <<serVars, escVars, pidVars, exVars, appVars, fnVars>>

\* the main loop, one iteration: try / extract_content / except Exception
MainLoopStep ==
    /\ drvPc = "loop"
    /\ drvKind = "scraper_main"
    /\ drvIdx < Len(drvUrls)
    /\ LET i == drvIdx + 1 IN
       \E r \in ExtractContentOutcomes(drvDriver) :
          /\ drvDriver' = r.driver
          /\ drvPosts' = IF r.out = "post" THEN Append(drvPosts, drvUrls[i]) ELSE drvPosts
          /\ drvFailed' = IF r.out = "post" THEN drvFailed ELSE Append(drvFailed, drvUrls[i])
          /\ drvIdx' = i
          /\ drvLog' = Append(drvLog, <<"extract", i>>)
          /\ drvPc' = AfterBody(i)
    /\ UNCHANGED <<drvKind, drvUrls>>
    /\ UNCHANGED <<serVars, escVars, pidVars, exVars, appVars, fnVars>>

\* time.sleep(delay) / time.sleep(3) after an iteration that is not the last
DrvSleep ==
    /\ drvPc = "sleep"
    /\ drvPc' = "loop"
    /\ drvLog' = Append(drvLog, <<"sleep", drvIdx>>)
    /\ UNCHANGED <<drvKind, drvUrls, drvIdx, drvDriver, drvPosts, drvFailed>>
    /\ UNCHANGED <<serVars, escVars, pidVars, exVars, appVars, fnVars>>

\* the loop is over: the summary is printed and the posts are serialized
DrvSummary ==
    /\ drvPc = "loop"
    /\ drvIdx = Len(drvUrls)
    /\ drvPc' = "summary"
    /\ UNCHANGED <<drvKind, drvUrls, drvIdx, drvDriver, drvPosts, drvFailed, drvLog>>
    /\ UNCHANGED <<serVars, escVars, pidVars, exVars, appVars, fnVars>>

DriversInit == DrvInit /\ SerIdle /\ EscIdle /\ PidIdle /\ ExIdle /\ AppIdle /\ FnIdle
DriversNext ==
    \/ DrvEnterLoop
    \/ MainSetupDriver
    \/ BatchExtractStep
    \/ ProcessUrlsStep
    \/ MainLoopStep
    \/ DrvSleep
    \/ DrvSummary
SpecDrivers == DriversInit /\ [][DriversNext]_vars

--------------------------------------------------------------------------
(* SpecExtract: the URLs of a run through one extraction entry point and   *)
(* the `if post:` of its driver.                                           *)
(*   smart     smart_extractor.extract_blog_post, under batch_extract       *)
(*   modern    modern_extractor.extract_blog_post, under modern_app         *)
(*   browser   BrowserScraper.extract_content, under process_urls / main    *)
(* A string is kept by its length and content by whether it holds a '<':   *)
(* the quality gate reads nothing else. Every attempt downloads the URL    *)
(* itself; the site answers with one of the versions of the page, or the   *)
(* request fails (document 0).                                             *)

MinTitleLen == 5
MaxTitleLen == 200
MinContentLen == 300
\* len("<div class='post-content'>\n" + "\n</div>")
WrapperLen == 34
\* len('Untitled')
UntitledLen == 8
\* len("Unknown Title")
UnknownTitleLen == 13

EntryPoints == {"smart", "modern", "browser"}
Documents == 0..NumPageVersions
\* lengths before strip(): with one character of padding removed they give
\* the titles on both sides of each limit (5 | 6 and 199 | 200)
TitleLens == {0, 3, MinTitleLen + 1, MaxTitleLen}
ContentLens == {0, MinContentLen, MinContentLen + 1}

\* what a library (trafilatura, newspaper3k, the page's soup) finds in a
\* document: the title with `pad` characters that strip() / the suffix
\* pattern removes, the extracted content and whether it holds markup
LibOuts ==
    { o \in [title : TitleLens, pad : {0, 1}, content : ContentLens, markup : BOOLEAN] :
        /\ o.pad <= o.title
        /\ o.markup => o.content > 0 }

NoResult == [some |-> FALSE, title |-> 0, content |-> 0, markup |-> FALSE, method |-> "none"]

IsGoodQuality(result) ==
    /\ result.some
    /\ result.title > MinTitleLen /\ result.title < MaxTitleLen
    /\ result.content > MinContentLen
    /\ result.markup

TryTrafilatura(doc, o) ==
    IF doc = 0 THEN NoResult
    ELSE IF o.content = 0 \/ o.title = 0 THEN NoResult
    ELSE [some |-> TRUE, title |-> o.title - o.pad, content |-> o.content,
          markup |-> o.markup, method |-> "trafilatura"]

TryNewspaper3k(doc, o) ==
    IF doc = 0 THEN NoResult
    ELSE IF o.title = 0 THEN NoResult
    ELSE [some |-> TRUE, title |-> o.title - o.pad, content |-> o.content,
          markup |-> o.markup, method |-> "newspaper3k"]

CleanTitle(len, pad) == IF len = 0 THEN UnknownTitleLen ELSE len - pad

ExInit ==
    /\ exEntry \in EntryPoints
    /\ exPc = "start"
    /\ exFetch = <<>>
    /\ exResult1 = NoResult
    /\ exResult2 = NoResult
    /\ exReturn = NoResult
    /\ exTaken = 0
    /\ exBatch = <<>>

\* smart_extractor.extract_blog_post up to its first return or its fallback
SmartMethod1 ==
    /\ exEntry = "smart" /\ exPc = "start"
    /\ \E doc \in Documents, o \in LibOuts :
         LET result == TryTrafilatura(doc, o) IN
         /\ exFetch' = <<doc>>
         /\ exResult1' = result
         /\ IF IsGoodQuality(result)
              THEN exReturn' = result /\ exPc' = "returned"
              ELSE exReturn' = NoResult /\ exPc' = "method2"
    /\ UNCHANGED <<exEntry, exResult2, exTaken, exBatch>>
    /\ UNCHANGED <<serVars, escVars, pidVars, drvVars, appVars, fnVars>>

\* the fallback of smart_extractor.extract_blog_post
SmartMethod2 ==
    /\ exEntry = "smart" /\ exPc = "method2"
    /\ \E doc \in Documents, o \in LibOuts :
         LET result == TryNewspaper3k(doc, o) IN
         /\ exFetch' = Append(exFetch, doc)
         /\ exResult2' = result
         /\ exReturn' = IF IsGoodQuality(result) THEN result ELSE NoResult
    /\ exPc' = "returned"
    /\ UNCHANGED <<exEntry, exResult1, exTaken, exBatch>>
    /\ UNCHANGED <<serVars, escVars, pidVars, drvVars, appVars, fnVars>>

\* modern_extractor.extract_blog_post, the newspaper3k block
ModernNewspaper ==
    /\ exEntry = "modern" /\ exPc = "start"
    /\ \E doc \in Documents, o \in LibOuts :
         /\ exFetch' = <<doc>>
         /\ IF doc # 0 /\ o.title > 0
              THEN LET result == [some |-> TRUE, title |-> CleanTitle(o.title, o.pad),
                                  content |-> WrapperLen + o.content, markup |-> TRUE,
                                  method |-> "newspaper3k"] IN
                   exResult1' = result /\ exReturn' = result /\ exPc' = "returned"
              ELSE exResult1' = NoResult /\ exReturn' = NoResult /\ exPc' = "method2"
    /\ UNCHANGED <<exEntry, exResult2, exTaken, exBatch>>
    /\ UNCHANGED <<serVars, escVars, pidVars, drvVars, appVars, fnVars>>

\* modern_extractor.extract_blog_post, the trafilatura block
ModernTrafilatura ==
    /\ exEntry = "modern" /\ exPc = "method2"
    /\ \E doc \in Documents, o \in LibOuts :
         LET result == IF doc # 0 /\ o.content > 0 /\ o.title > 0
                         THEN [some |-> TRUE, title |-> CleanTitle(o.title, o.pad),
                               content |-> WrapperLen + o.content, markup |-> TRUE,
                               method |-> "trafilatura"]
                         ELSE NoResult IN
         /\ exFetch' = Append(exFetch, doc)
         /\ exResult2' = result
         /\ exReturn' = result
    /\ exPc' = "returned"
    /\ UNCHANGED <<exEntry, exResult1, exTaken, exBatch>>
    /\ UNCHANGED <<serVars, escVars, pidVars, drvVars, appVars, fnVars>>

\* BrowserScraper.extract_content with the driver running
BrowserExtract ==
    /\ exEntry = "browser" /\ exPc = "start"
    /\ \E doc \in Documents, o \in LibOuts, area \in BOOLEAN :
         LET title == o.title - o.pad
             result == IF doc = 0 \/ ~area THEN NoResult
                       ELSE [some |-> TRUE,
                             title |-> IF title = 0 THEN UntitledLen ELSE title,
                             content |-> o.content, markup |-> o.markup,
                             method |-> "browser_automation"] IN
         /\ exFetch' = <<doc>>
         /\ exResult1' = result
         /\ exReturn' = result
    /\ exPc' = "returned"
    /\ UNCHANGED <<exEntry, exResult2, exTaken, exBatch>>
    /\ UNCHANGED <<serVars, escVars, pidVars, drvVars, appVars, fnVars>>

\* the driver: `if post: posts.append(post)`, then the next URL
DriverTakes ==
    /\ exPc = "returned"
    /\ exBatch' = IF exReturn.some THEN Append(exBatch, exReturn) ELSE exBatch
    /\ exTaken' = exTaken + 1
    /\ exPc' = IF exTaken + 1 < MaxExUrls THEN "start" ELSE "done"
    /\ exFetch' = <<>>
    /\ exResult1' = NoResult
    /\ exResult2' = NoResult
    /\ exReturn' = NoResult
    /\ UNCHANGED exEntry
    /\ UNCHANGED <<serVars, escVars, pidVars, drvVars, appVars, fnVars>>

ExtractInit == ExInit /\ SerIdle /\ EscIdle /\ PidIdle /\ DrvIdle /\ AppIdle /\ FnIdle
ExtractNext ==
    \/ SmartMethod1
    \/ SmartMethod2
    \/ ModernNewspaper
    \/ ModernTrafilatura
    \/ BrowserExtract
    \/ DriverTakes
SpecExtract == ExtractInit /\ [][ExtractNext]_vars

--------------------------------------------------------------------------
(* SpecApp: one session of modern_app.py under find/replace requests.      *)
(* The session holds the posts, the preview of preview_replace, the        *)
(* matches of global_preview_replace and the has_modifications flag.       *)

TagA == <<97>>          \* a

\* <a href="{href}">x</a>
Anchor(href) == <<60, 97, 32>> \o HrefOpen \o href \o <<ChQuot, ChGt, ChX, 60, 47, 97, 62>>
\* <img src="{src}">
Image(src) == <<60, 105, 109, 103, 32, 115, 114, 99, 61, 34>> \o src \o <<ChQuot, ChGt>>

PathO == <<47, 111>>            \* /o
PathOI == <<47, 111, 47, 105>>  \* /o/i
PathN == <<47, 110>>            \* /n
OpenGroup == <<40>>             \* (

\* the nodes the contents are built from: two anchors, the href of one
\* inside the href of the other, an image and a text with the same path
AppNodes == { Anchor(PathO), Anchor(PathOI), Image(PathO), PathO }

Titles == {"t1", "t2"}

\* the lists of posts of a session: up to MaxPosts posts, MaxNodes nodes
\* in all
AppPostLists ==
    { ps \in UNION { [1..n -> [title : Titles,
                               nodes : PieceSeqs(AppNodes, MaxNodes)]] : n \in 0..MaxPosts } :
        /\ Len(Flatten([k \in 1..Len(ps) |-> ps[k].nodes])) <= MaxNodes
        /\ ps # <<>> => ps[1].title = "t1" }

NoPreview == [present |-> FALSE, changes |-> <<>>, search |-> <<>>, replace |-> <<>>, regex |-> FALSE]
NoGlobal == [present |-> FALSE, matches |-> <<>>, search |-> <<>>, replace |-> <<>>, regex |-> FALSE]

\* original_posts = posts without the copies
CopyPosts_SameDicts(posts) == [k \in 1..Len(posts) |-> [shared |-> TRUE, post |-> posts[k]]]

\* [post.copy() for post in posts]: for each post a dict of its own
\* (`shared` tells whether the entry is the dict of data['posts'] itself),
\* holding the values the post has at the time
CopyPosts(posts) == [k \in 1..Len(posts) |-> [shared |-> FALSE, post |-> posts[k]]]

\* data['original_posts'] as a reader finds it
OriginalPosts ==
    [k \in 1..Len(appOriginal) |->
       IF appOriginal[k].shared THEN appPosts[k] ELSE appOriginal[k].post]

AppInit ==
    /\ \E ps \in AppPostLists :
         appPosts = [k \in 1..Len(ps) |->
                       [title |-> ps[k].title, content |-> Flatten(ps[k].nodes), modified |-> FALSE]]
    /\ appPreview = NoPreview
    /\ appGlobal = NoGlobal
    /\ appModified = FALSE
    /\ appResp = [status |-> 0, success |-> FALSE, error |-> "", count |-> 0]
    /\ appRequests = 0
    /\ appOriginal = CopyPosts(appPosts)
    /\ appDownload = <<>>

\* the request bodies: the search and replace fields as typed (strip() is
\* the handler's); no post index (-1), the first post, or an index past the
\* last post
SearchInputs == { <<ChSpace>> \o PathO, OpenGroup, <<>> }
ReplaceInputs == { PathN \o <<ChSpace>> }
PostIndexes == {-1, 0, MaxPosts}

\* the ids a client can send back: those of the entries it was shown, and
\* one that names no entry
PreviewIds(changes) ==
    UNION { { <<i - 1, k - 1>> : k \in 1..Len(changes[i].elements) } : i \in 1..Len(changes) }
GlobalIds(all) ==
    UNION { { <<all[g].post_index, k - 1>> : k \in 1..Len(all[g].matches) } : g \in 1..Len(all) }
UnknownId == <<0, MaxNodes>>

\* link.get('href') of a start tag written with double quotes
TagHref(tok) ==
    LET at == StrFind(tok.s, HrefOpen, 0)
    IN  IF at = -1 THEN [has |-> FALSE, value |-> <<>>]
        ELSE LET from == at + Len(HrefOpen)
                 to == StrFind(tok.s, <<ChQuot>>, from)
             IN  [has |-> TRUE, value |-> Slice(tok.s, from, IF to = -1 THEN Len(tok.s) ELSE to)]

RECURSIVE LinksFrom(_, _)
LinksFrom(toks, k) ==
    IF k > Len(toks) THEN <<>>
    ELSE IF StartTagName(toks[k]) = TagA /\ TagHref(toks[k]).has
         THEN LET e == ElementEnd(toks, k + 1, TagA)
              IN  <<[href |-> TagHref(toks[k]).value,
                     tag |-> TokensStr(toks, k, e, {}),
                     text |-> TokensText(toks, k, e),
                     tok |-> k]>> \o LinksFrom(toks, k + 1)
         ELSE LinksFrom(toks, k + 1)

\* soup.find_all('a', href=True)
FindAllLinks(content) == LinksFrom(SoupTokens(content), 1)

\* re.compile raises re.error: of the patterns of the model, those with a
\* group that is opened and not closed. The other patterns hold no
\* metacharacter, re.search on them is `in` and re.sub is str.replace.
RegexError(pattern) == Contains(pattern, OpenGroup)

\* the matching_elements of one post (`tok`, the position of the link among
\* the tokens of the content, is kept to tell the links of one href apart)
MatchingElements(content, search, replace) ==
    LET hit == SelectSeq(FindAllLinks(content), LAMBDA l : Contains(l.href, search))
    IN  [k \in 1..Len(hit) |->
           [original_tag |-> hit[k].tag, original_href |-> hit[k].href,
            new_href |-> StrReplace(hit[k].href, search, replace), tok |-> hit[k].tok]]

Processed(index, p) == index = -1 \/ index + 1 = p

RECURSIVE PreviewChangesFrom(_, _, _, _, _)
\* changes_preview (`post_index` is kept beside the title the handler stores)
PreviewChangesFrom(posts, p, index, search, replace) ==
    IF p > Len(posts) THEN <<>>
    ELSE LET els == IF Processed(index, p) /\ posts[p].content # <<>>
                      THEN MatchingElements(posts[p].content, search, replace)
                      ELSE <<>>
         IN  (IF els # <<>>
                THEN <<[post_title |-> posts[p].title, matches |-> Len(els),
                        elements |-> els, post_index |-> p - 1]>>
                ELSE <<>>)
             \o PreviewChangesFrom(posts, p + 1, index, search, replace)

\* a post the loop reaches holds a link: the pattern is handed to re
ReachesLink(posts, index, skipEmptyHref) ==
    \E p \in 1..Len(posts) :
        /\ Processed(index, p)
        /\ \E k \in 1..Len(FindAllLinks(posts[p].content)) :
             skipEmptyHref => FindAllLinks(posts[p].content)[k].href # <<>>

Respond(status, success, error, count) ==
    [status |-> status, success |-> success, error |-> error, count |-> count]

\* one more request is served
Served == appRequests < MaxRequests /\ appRequests' = appRequests + 1

RECURSIVE CountElements(_)
CountElements(changes) ==
    IF changes = <<>> THEN 0 ELSE Head(changes).matches + CountElements(Tail(changes))

\* the handler of /api/find-replace/preview on one request body
PreviewReplaceWith(searchIn, replaceIn, use_regex, post_index) ==
      LET search_pattern == Strip(searchIn)
          replace_with == Strip(replaceIn)
          changes == PreviewChangesFrom(appPosts, 1, post_index, search_pattern, replace_with)
          Fail(error) ==
              /\ appResp' = Respond(200, FALSE, error, 0)
              /\ UNCHANGED appPreview
      IN  /\ IF search_pattern = <<>> \/ replace_with = <<>> THEN Fail("fields required")
             ELSE IF appPosts = <<>> THEN Fail("no posts")
             ELSE IF post_index # -1 /\ post_index >= Len(appPosts) THEN Fail("invalid post index")
             ELSE IF use_regex /\ RegexError(search_pattern)
                     /\ ReachesLink(appPosts, post_index, FALSE)
                  THEN Fail("invalid regex pattern")
             ELSE IF changes = <<>> THEN Fail("no matches")
             ELSE /\ appPreview' = [present |-> TRUE, changes |-> changes,
                                    search |-> search_pattern, replace |-> replace_with,
                                    regex |-> use_regex]
                  /\ appResp' = Respond(200, TRUE, "", CountElements(changes))
          /\ appDownload' = <<>>
          /\ UNCHANGED <<appPosts, appGlobal, appModified, appOriginal>>
          /\ UNCHANGED <<serVars, escVars, pidVars, drvVars, exVars, fnVars>>

\* POST /api/find-replace/preview
PreviewReplace ==
    /\ Served
    /\ \E searchIn \in SearchInputs, replaceIn \in ReplaceInputs, use_regex \in BOOLEAN,
          post_index \in PostIndexes :
         PreviewReplaceWith(searchIn, replaceIn, use_regex, post_index)

\* the first post with the title, 0 when there is none
RECURSIVE PostByTitle(_, _, _)
PostByTitle(posts, title, p) ==
    IF p > Len(posts) THEN 0
    ELSE IF posts[p].title = title THEN p ELSE PostByTitle(posts, title, p + 1)

RECURSIVE ApplyElements(_, _, _, _, _)
\* the inner loop of apply_replace over the elements of change i
ApplyElements(content, elements, i, idx, selected) ==
    IF idx > Len(elements) THEN [content |-> content, made |-> 0]
    ELSE IF <<i, idx - 1>> \in selected
         THEN LET r == ApplyElements(StrReplace(content, elements[idx].original_href,
                                                elements[idx].new_href),
                                     elements, i, idx + 1, selected)
              IN  [content |-> r.content, made |-> r.made + 1]
         ELSE ApplyElements(content, elements, i, idx + 1, selected)

RECURSIVE ApplyChanges(_, _, _, _, _)
\* the outer loop of apply_replace over preview_data
ApplyChanges(posts, changes, i, selected, total) ==
    IF i > Len(changes) THEN [posts |-> posts, total |-> total]
    ELSE LET p == PostByTitle(posts, changes[i].post_title, 1)
         IN  IF p = 0 \/ posts[p].content = <<>>
             THEN ApplyChanges(posts, changes, i + 1, selected, total)
             ELSE LET r == ApplyElements(posts[p].content, changes[i].elements, i - 1, 1, selected)
                  IN  IF r.made > 0
                      THEN ApplyChanges([posts EXCEPT ![p].content = r.content],
                                        changes, i + 1, selected, total + r.made)
                      ELSE ApplyChanges(posts, changes, i + 1, selected, total)

\* apply_replace without the pops of lines 835-838
ApplyReplaceWith_KeepsPreview(selected_elements) ==
      LET r == ApplyChanges(appPosts, appPreview.changes, 1, selected_elements, 0)
          Fail(error) ==
              /\ appResp' = Respond(200, FALSE, error, 0)
              /\ UNCHANGED <<appPosts, appPreview, appModified>>
      IN  /\ IF selected_elements = {} THEN Fail("no elements selected")
             ELSE IF ~appPreview.present THEN Fail("no preview data")
             ELSE /\ appPosts' = r.posts
                  /\ appModified' = TRUE
                  /\ UNCHANGED appPreview
                  /\ appResp' = Respond(200, TRUE, "", r.total)
          /\ appDownload' = <<>>
          /\ UNCHANGED <<appGlobal, appOriginal>>
          /\ UNCHANGED <<serVars, escVars, pidVars, drvVars, exVars, fnVars>>

\* the handler of /api/find-replace/apply on one request body
ApplyReplaceWith(selected_elements) ==
      LET r == ApplyChanges(appPosts, appPreview.changes, 1, selected_elements, 0)
          Fail(error) ==
              /\ appResp' = Respond(200, FALSE, error, 0)
              /\ UNCHANGED <<appPosts, appPreview, appModified>>
      IN  /\ IF selected_elements = {} THEN Fail("no elements selected")
             ELSE IF ~appPreview.present THEN Fail("no preview data")
             ELSE /\ appPosts' = r.posts
                  /\ appModified' = TRUE
                  /\ appPreview' = NoPreview
                  /\ appResp' = Respond(200, TRUE, "", r.total)
          /\ appDownload' = <<>>
          /\ UNCHANGED <<appGlobal, appOriginal>>
          /\ UNCHANGED <<serVars, escVars, pidVars, drvVars, exVars, fnVars>>

\* POST /api/find-replace/apply
ApplyReplace ==
    /\ Served
    /\ \E selected_elements \in SUBSET (PreviewIds(appPreview.changes) \cup {UnknownId}) :
         ApplyReplaceWith(selected_elements)

\* the position of a matched href in the content, a 0-based (start, end)
HrefPosition(content, href) ==
    LET dq == StrFind(content, HrefOpen \o href \o <<ChQuot>>, 0)
        sq == StrFind(content, <<104, 114, 101, 102, 61, ChApos>> \o href \o <<ChApos>>, 0)
        nq == StrFind(content, <<104, 114, 101, 102, 61>> \o href, 0)
        href_start == IF dq # -1 THEN dq ELSE IF sq # -1 THEN sq ELSE nq
    IN  IF href_start # -1
        THEN LET href_value_start == StrFind(content, href, href_start)
             IN  <<href_value_start, href_value_start + Len(href)>>
        ELSE LET found == StrFind(content, href, 0)
             IN  IF found # -1 THEN <<found, found + Len(href)>> ELSE <<0, 0>>

\* post_matches of one post
PostMatches(content, search, replace) ==
    LET hit == SelectSeq(FindAllLinks(content),
                         LAMBDA l : l.href # <<>> /\ Contains(l.href, search))
    IN  [k \in 1..Len(hit) |->
           [text |-> hit[k].href,
            replacement |-> StrReplace(hit[k].href, search, replace),
            link_text |-> hit[k].text,
            position |-> HrefPosition(content, hit[k].href),
            tok |-> hit[k].tok]]

RECURSIVE GlobalMatchesFrom(_, _, _, _, _)
\* all_matches
GlobalMatchesFrom(posts, p, index, search, replace) ==
    IF p > Len(posts) THEN <<>>
    ELSE LET ms == IF Processed(index, p)
                     THEN PostMatches(posts[p].content, search, replace)
                     ELSE <<>>
         IN  (IF ms # <<>>
                THEN <<[post_index |-> p - 1, post_title |-> posts[p].title, matches |-> ms]>>
                ELSE <<>>)
             \o GlobalMatchesFrom(posts, p + 1, index, search, replace)

RECURSIVE CountMatches(_)
CountMatches(all) ==
    IF all = <<>> THEN 0 ELSE Len(Head(all).matches) + CountMatches(Tail(all))

\* the handler of /api/find-replace/global-preview on one request body
GlobalPreviewReplaceWith(searchIn, replaceIn, use_regex, target_post_index) ==
      LET search_pattern == Strip(searchIn)
          replace_with == Strip(replaceIn)
          all_matches == GlobalMatchesFrom(appPosts, 1, target_post_index,
                                           search_pattern, replace_with)
          Fail(error) ==
              /\ appResp' = Respond(400, FALSE, error, 0)
              /\ UNCHANGED appGlobal
      IN  /\ IF search_pattern = <<>> THEN Fail("search pattern required")
             ELSE IF appPosts = <<>> THEN Fail("no posts")
             ELSE IF target_post_index # -1 /\ target_post_index >= Len(appPosts)
                  THEN Fail("invalid post index")
             ELSE IF use_regex /\ RegexError(search_pattern)
                     /\ ReachesLink(appPosts, target_post_index, TRUE)
                  THEN Fail("regex error")
             ELSE /\ appGlobal' = [present |-> TRUE, matches |-> all_matches,
                                   search |-> search_pattern, replace |-> replace_with,
                                   regex |-> use_regex]
                  /\ appResp' = Respond(200, TRUE, "", CountMatches(all_matches))
          /\ appDownload' = <<>>
          /\ UNCHANGED <<appPosts, appPreview, appModified, appOriginal>>
          /\ UNCHANGED <<serVars, escVars, pidVars, drvVars, exVars, fnVars>>

\* POST /api/find-replace/global-preview
GlobalPreviewReplace ==
    /\ Served
    /\ \E searchIn \in SearchInputs, replaceIn \in ReplaceInputs, use_regex \in BOOLEAN,
          target_post_index \in PostIndexes :
         GlobalPreviewReplaceWith(searchIn, replaceIn, use_regex, target_post_index)

RECURSIVE ApplyMatches(_, _, _, _, _)
\* the loop over sorted(match_indices, reverse=True) for one post
ApplyMatches(content, matches, post_index, m, selected) ==
    IF m < 0 THEN content
    ELSE IF <<post_index, m>> \in selected /\ m < Len(matches)
         THEN ApplyMatches(Slice(content, 0, matches[m + 1].position[1])
                             \o matches[m + 1].replacement
                             \o Slice(content, matches[m + 1].position[2], Len(content)),
                           matches, post_index, m - 1, selected)
         ELSE ApplyMatches(content, matches, post_index, m - 1, selected)

\* the first entry of global_matches for the post, 0 when there is none
RECURSIVE MatchDataOf(_, _, _)
MatchDataOf(global_matches, post_index, g) ==
    IF g > Len(global_matches) THEN 0
    ELSE IF global_matches[g].post_index = post_index THEN g
    ELSE MatchDataOf(global_matches, post_index, g + 1)

MaxMatchIndex(selected) ==
    IF selected = {} THEN -1
    ELSE CHOOSE m \in {id[2] : id \in selected} : \A id \in selected : id[2] <= m

\* the posts after the loop over matches_by_post
GlobalApplied(posts, global_matches, selected) ==
    [p \in 1..Len(posts) |->
       LET g == MatchDataOf(global_matches, p - 1, 1)
       IN  IF (\E id \in selected : id[1] = p - 1) /\ g # 0
           THEN [posts[p] EXCEPT
                   !.content = ApplyMatches(posts[p].content, global_matches[g].matches,
                                            p - 1, MaxMatchIndex(selected), selected),
                   !.modified = TRUE]
           ELSE posts[p]]

\* the handler of /api/find-replace/global-apply on one request body
GlobalApplyReplaceWith(selected_matches) ==
      LET Fail(error) ==
              /\ appResp' = Respond(400, FALSE, error, 0)
              /\ UNCHANGED <<appPosts, appGlobal, appModified>>
      IN  /\ IF selected_matches = {} THEN Fail("no matches selected")
             ELSE IF appPosts = <<>> \/ appGlobal.matches = <<>> THEN Fail("no data available")
             ELSE /\ appPosts' = GlobalApplied(appPosts, appGlobal.matches, selected_matches)
                  /\ appModified' = TRUE
                  /\ appGlobal' = NoGlobal
                  /\ appResp' = Respond(200, TRUE, "", 0)
          /\ appDownload' = <<>>
          /\ UNCHANGED <<appPreview, appOriginal>>
          /\ UNCHANGED <<serVars, escVars, pidVars, drvVars, exVars, fnVars>>

\* POST /api/find-replace/global-apply
GlobalApplyReplace ==
    /\ Served
    /\ \E selected_matches \in SUBSET (GlobalIds(appGlobal.matches) \cup {UnknownId}) :
         GlobalApplyReplaceWith(selected_matches)

FindReplaceInit == AppInit /\ SerIdle /\ EscIdle /\ PidIdle /\ DrvIdle /\ ExIdle /\ FnIdle
FindReplaceNext ==
    \/ PreviewReplace
    \/ ApplyReplace
    \/ GlobalPreviewReplace
    \/ GlobalApplyReplace
SpecApp == FindReplaceInit /\ [][FindReplaceNext]_vars

--------------------------------------------------------------------------
(* SpecDocument: a batch of posts through either serializer, the whole     *)
(* document.  A datetime is modelled by whether the post has one; strftime *)
(* and datetime.now() give the text of one sample instant.                 *)

\* c.lower() for the code points of Latin-1
Lower(c) ==
    IF (65 <= c /\ c <= 90) \/ (192 <= c /\ c <= 222 /\ c # 215) THEN c + 32 ELSE c

\* s.lower()
LowerStr(s) == [i \in 1..Len(s) |-> Lower(s[i])]

\* the characters re.sub(r'[^a-z0-9-]', '', s) keeps
IsSlugChar(c) == (97 <= c /\ c <= 122) \/ (48 <= c /\ c <= 57) \/ c = 45

RECURSIVE DecimalDigits(_)
\* str(n) for n >= 0
DecimalDigits(n) ==
    IF n < 10 THEN <<48 + n>> ELSE DecimalDigits(n \div 10) \o <<48 + (n % 10)>>

\* '\n'.join(parts)
JoinLines(parts) ==
    Flatten([i \in 1..(2 * Len(parts) - 1) |->
                IF i % 2 = 1 THEN parts[(i + 1) \div 2] ELSE <<10>>])

\* generate_wordpress_xml_fixed(posts), hash() being h in the process
GenerateWordpressXmlFixed(posts, h) ==
    LET
        head01 == <<60, 63, 120, 109, 108, 32, 118, 101, 114, 115, 105, 111, 110, 61, 34, 49, 46, 48, 34, 32, 101, 110, 99, 111, 100, 105, 110, 103, 61, 34, 85, 84, 70, 45, 56, 34, 32, 63, 62>>   \* <?xml version="1.0" encoding="UTF-8" ?>
        head02 == <<60, 114, 115, 115, 32, 118, 101, 114, 115, 105, 111, 110, 61, 34, 50, 46, 48, 34>>   \* <rss version="2.0"
        head03 == <<32, 120, 109, 108, 110, 115, 58, 101, 120, 99, 101, 114, 112, 116, 61, 34, 104, 116, 116, 112, 58, 47, 47, 119, 111, 114, 100, 112, 114, 101, 115, 115, 46, 111, 114, 103, 47, 101, 120, 112, 111, 114, 116, 47, 49, 46, 50, 47, 101, 120, 99, 101, 114, 112, 116, 47, 34>>   \*  xmlns:excerpt="http://wordpress.org/export/1.2/excerpt/"
        head04 == <<32, 120, 109, 108, 110, 115, 58, 99, 111, 110, 116, 101, 110, 116, 61, 34, 104, 116, 116, 112, 58, 47, 47, 112, 117, 114, 108, 46, 111, 114, 103, 47, 114, 115, 115, 47, 49, 46, 48, 47, 109, 111, 100, 117, 108, 101, 115, 47, 99, 111, 110, 116, 101, 110, 116, 47, 34>>   \*  xmlns:content="http://purl.org/rss/1.0/modules/content/"
        head05 == <<32, 120, 109, 108, 110, 115, 58, 119, 102, 119, 61, 34, 104, 116, 116, 112, 58, 47, 47, 119, 101, 108, 108, 102, 111, 114, 109, 101, 100, 119, 101, 98, 46, 111, 114, 103, 47, 67, 111, 109, 109, 101, 110, 116, 65, 80, 73, 47, 34>>   \*  xmlns:wfw="http://wellformedweb.org/CommentAPI/"
        head06 == <<32, 120, 109, 108, 110, 115, 58, 100, 99, 61, 34, 104, 116, 116, 112, 58, 47, 47, 112, 117, 114, 108, 46, 111, 114, 103, 47, 100, 99, 47, 101, 108, 101, 109, 101, 110, 116, 115, 47, 49, 46, 49, 47, 34>>   \*  xmlns:dc="http://purl.org/dc/elements/1.1/"
        head07 == <<32, 120, 109, 108, 110, 115, 58, 119, 112, 61, 34, 104, 116, 116, 112, 58, 47, 47, 119, 111, 114, 100, 112, 114, 101, 115, 115, 46, 111, 114, 103, 47, 101, 120, 112, 111, 114, 116, 47, 49, 46, 50, 47, 34, 62>>   \*  xmlns:wp="http://wordpress.org/export/1.2/">
        head08 == <<60, 99, 104, 97, 110, 110, 101, 108, 62>>   \* <channel>
        head09 == <<60, 116, 105, 116, 108, 101, 62, 77, 105, 103, 114, 97, 116, 101, 100, 32, 66, 108, 111, 103, 60, 47, 116, 105, 116, 108, 101, 62>>   \* <title>Migrated Blog</title>
        head10 == <<60, 108, 105, 110, 107, 62, 104, 116, 116, 112, 115, 58, 47, 47, 110, 101, 119, 115, 105, 116, 101, 46, 99, 111, 109, 60, 47, 108, 105, 110, 107, 62>>   \* <link>https://newsite.com</link>
        head11 == <<60, 100, 101, 115, 99, 114, 105, 112, 116, 105, 111, 110, 62, 77, 105, 103, 114, 97, 116, 101, 100, 32, 99, 111, 110, 116, 101, 110, 116, 60, 47, 100, 101, 115, 99, 114, 105, 112, 116, 105, 111, 110, 62>>   \* <description>Migrated content</description>
        head12 == <<60, 112, 117, 98, 68, 97, 116, 101, 62, 84, 117, 101, 44, 32, 48, 53, 32, 77, 97, 114, 32, 50, 48, 50, 52, 32, 48, 48, 58, 48, 48, 58, 48, 48, 32, 43, 48, 48, 48, 48, 60, 47, 112, 117, 98, 68, 97, 116, 101, 62>>   \* <pubDate>Tue, 05 Mar 2024 00:00:00 +0000</pubDate>
        head13 == <<60, 108, 97, 110, 103, 117, 97, 103, 101, 62, 101, 110, 45, 85, 83, 60, 47, 108, 97, 110, 103, 117, 97, 103, 101, 62>>   \* <language>en-US</language>
        head14 == <<60, 119, 112, 58, 119, 120, 114, 95, 118, 101, 114, 115, 105, 111, 110, 62, 49, 46, 50, 60, 47, 119, 112, 58, 119, 120, 114, 95, 118, 101, 114, 115, 105, 111, 110, 62>>   \* <wp:wxr_version>1.2</wp:wxr_version>
        head15 == <<60, 119, 112, 58, 98, 97, 115, 101, 95, 115, 105, 116, 101, 95, 117, 114, 108, 62, 104, 116, 116, 112, 115, 58, 47, 47, 110, 101, 119, 115, 105, 116, 101, 46, 99, 111, 109, 60, 47, 119, 112, 58, 98, 97, 115, 101, 95, 115, 105, 116, 101, 95, 117, 114, 108, 62>>   \* <wp:base_site_url>https://newsite.com</wp:base_site_url>
        head16 == <<60, 119, 112, 58, 98, 97, 115, 101, 95, 98, 108, 111, 103, 95, 117, 114, 108, 62, 104, 116, 116, 112, 115, 58, 47, 47, 110, 101, 119, 115, 105, 116, 101, 46, 99, 111, 109, 60, 47, 119, 112, 58, 98, 97, 115, 101, 95, 98, 108, 111, 103, 95, 117, 114, 108, 62>>   \* <wp:base_blog_url>https://newsite.com</wp:base_blog_url>
        itemOpen == <<60, 105, 116, 101, 109, 62>>   \* <item>
        itemClose == <<60, 47, 105, 116, 101, 109, 62>>   \* </item>
        titleOpen == <<60, 116, 105, 116, 108, 101, 62>>   \* <title>
        titleClose == <<60, 47, 116, 105, 116, 108, 101, 62>>   \* </title>
        linkOpen == <<60, 108, 105, 110, 107, 62>>   \* <link>
        linkClose == <<60, 47, 108, 105, 110, 107, 62>>   \* </link>
        pubDate == <<60, 112, 117, 98, 68, 97, 116, 101, 62, 84, 117, 101, 44, 32, 48, 53, 32, 77, 97, 114, 32, 50, 48, 50, 52, 32, 48, 48, 58, 48, 48, 58, 48, 48, 32, 43, 48, 48, 48, 48, 60, 47, 112, 117, 98, 68, 97, 116, 101, 62>>   \* <pubDate>Tue, 05 Mar 2024 00:00:00 +0000</pubDate>
        creatorOpen == <<60, 100, 99, 58, 99, 114, 101, 97, 116, 111, 114, 62>>   \* <dc:creator>
        creatorClose == <<60, 47, 100, 99, 58, 99, 114, 101, 97, 116, 111, 114, 62>>   \* </dc:creator>
        guidOpen == <<60, 103, 117, 105, 100, 32, 105, 115, 80, 101, 114, 109, 97, 76, 105, 110, 107, 61, 34, 102, 97, 108, 115, 101, 34, 62>>   \* <guid isPermaLink="false">
        guidClose == <<60, 47, 103, 117, 105, 100, 62>>   \* </guid>
        description == <<60, 100, 101, 115, 99, 114, 105, 112, 116, 105, 111, 110, 32, 47, 62>>   \* <description />
        postIdOpen == <<60, 119, 112, 58, 112, 111, 115, 116, 95, 105, 100, 62>>   \* <wp:post_id>
        postIdClose == <<60, 47, 119, 112, 58, 112, 111, 115, 116, 95, 105, 100, 62>>   \* </wp:post_id>
        postDate == <<60, 119, 112, 58, 112, 111, 115, 116, 95, 100, 97, 116, 101, 62, 50, 48, 50, 52, 45, 48, 51, 45, 48, 53, 32, 48, 48, 58, 48, 48, 58, 48, 48, 60, 47, 119, 112, 58, 112, 111, 115, 116, 95, 100, 97, 116, 101, 62>>   \* <wp:post_date>2024-03-05 00:00:00</wp:post_date>
        postDateGmt == <<60, 119, 112, 58, 112, 111, 115, 116, 95, 100, 97, 116, 101, 95, 103, 109, 116, 62, 50, 48, 50, 52, 45, 48, 51, 45, 48, 53, 32, 48, 48, 58, 48, 48, 58, 48, 48, 60, 47, 119, 112, 58, 112, 111, 115, 116, 95, 100, 97, 116, 101, 95, 103, 109, 116, 62>>   \* <wp:post_date_gmt>2024-03-05 00:00:00</wp:post_date_gmt>
        postNameOpen == <<60, 119, 112, 58, 112, 111, 115, 116, 95, 110, 97, 109, 101, 62>>   \* <wp:post_name>
        postNameClose == <<60, 47, 119, 112, 58, 112, 111, 115, 116, 95, 110, 97, 109, 101, 62>>   \* </wp:post_name>
        status == <<60, 119, 112, 58, 115, 116, 97, 116, 117, 115, 62, 112, 117, 98, 108, 105, 115, 104, 60, 47, 119, 112, 58, 115, 116, 97, 116, 117, 115, 62>>   \* <wp:status>publish</wp:status>
        postType == <<60, 119, 112, 58, 112, 111, 115, 116, 95, 116, 121, 112, 101, 62, 112, 111, 115, 116, 60, 47, 119, 112, 58, 112, 111, 115, 116, 95, 116, 121, 112, 101, 62>>   \* <wp:post_type>post</wp:post_type>
        postPassword == <<60, 119, 112, 58, 112, 111, 115, 116, 95, 112, 97, 115, 115, 119, 111, 114, 100, 32, 47, 62>>   \* <wp:post_password />
        contentOpen == <<60, 99, 111, 110, 116, 101, 110, 116, 58, 101, 110, 99, 111, 100, 101, 100, 62, 60, 33, 91, 67, 68, 65, 84, 65, 91>>   \* <content:encoded><![CDATA[
        contentClose == <<93, 93, 62, 60, 47, 99, 111, 110, 116, 101, 110, 116, 58, 101, 110, 99, 111, 100, 101, 100, 62>>   \* ]]></content:encoded>
        categoryOpen == <<60, 99, 97, 116, 101, 103, 111, 114, 121, 32, 100, 111, 109, 97, 105, 110, 61, 34, 99, 97, 116, 101, 103, 111, 114, 121, 34, 32, 110, 105, 99, 101, 110, 97, 109, 101, 61, 34>>   \* <category domain="category" nicename="
        tagOpen == <<60, 99, 97, 116, 101, 103, 111, 114, 121, 32, 100, 111, 109, 97, 105, 110, 61, 34, 112, 111, 115, 116, 95, 116, 97, 103, 34, 32, 110, 105, 99, 101, 110, 97, 109, 101, 61, 34>>   \* <category domain="post_tag" nicename="
        attrEnd == <<34, 62>>   \* ">
        categoryClose == <<60, 47, 99, 97, 116, 101, 103, 111, 114, 121, 62>>   \* </category>
        excerpt == <<60, 101, 120, 99, 101, 114, 112, 116, 58, 101, 110, 99, 111, 100, 101, 100, 32, 47, 62>>   \* <excerpt:encoded />
        channelClose == <<60, 47, 99, 104, 97, 110, 110, 101, 108, 62>>   \* </channel>
        rssClose == <<60, 47, 114, 115, 115, 62>>   \* </rss>
        hyphen == <<45>>   \* -
        and == <<97, 110, 100>>   \* and
        \* cat_slug / tag_slug
        slugOf(label) ==
            SelectSeq(StrReplace(StrReplace(LowerStr(label), <<ChSpace>>, hyphen), <<ChAmp>>, and),
                      IsSlugChar)
        labelPart(open, label) ==
            open \o slugOf(label) \o attrEnd \o EscapeXmlText(label) \o categoryClose
        item(post) ==
            <<itemOpen,
              titleOpen \o EscapeXmlText(post.title) \o titleClose,
              linkOpen \o EscapeXmlText(post.url) \o linkClose>>
            \o (IF post.date THEN <<pubDate>> ELSE <<>>)
            \o <<creatorOpen \o EscapeXmlText(post.author) \o creatorClose,
                 guidOpen \o EscapeXmlText(post.url) \o guidClose,
                 description,
                 postIdOpen \o DecimalDigits(h[post.url] % PostIdModulus) \o postIdClose>>
            \o (IF post.date THEN <<postDate, postDateGmt>> ELSE <<>>)
            \o <<postNameOpen \o EscapeXmlText(post.slug) \o postNameClose,
                 status, postType, postPassword,
                 contentOpen \o CleanContentForCdata(post.content) \o contentClose>>
            \o [k \in 1..Len(post.categories) |-> labelPart(categoryOpen, post.categories[k])]
            \o [k \in 1..Len(post.tags) |-> labelPart(tagOpen, post.tags[k])]
            \o <<excerpt, itemClose>>
    IN  IF posts = <<>> THEN <<>>
        ELSE JoinLines(<<head01, head02, head03, head04, head05, head06, head07, head08, head09, head10, head11, head12, head13, head14, head15, head16>>
                       \o Flatten([i \in 1..Len(posts) |-> item(posts[i])])
                       \o <<channelClose, rssClose>>)

\* generate_wordpress_xml(posts), hash() being h in the process: the tree
\* as ET.tostring writes it (text and attribute values escaped, an element
\* without text self-closed), add_cdata_to_content on each content:encoded
\* element, and the declaration in front
GenerateWordpressXml(posts, h) ==
    LET
        declaration == <<60, 63, 120, 109, 108, 32, 118, 101, 114, 115, 105, 111, 110, 61, 34, 49, 46, 48, 34, 32, 101, 110, 99, 111, 100, 105, 110, 103, 61, 34, 85, 84, 70, 45, 56, 34, 32, 63, 62>>   \* <?xml version="1.0" encoding="UTF-8" ?>
        rssOpen == <<60, 114, 115, 115, 32, 118, 101, 114, 115, 105, 111, 110, 61, 34, 50, 46, 48, 34, 32, 120, 109, 108, 110, 115, 58, 101, 120, 99, 101, 114, 112, 116, 61, 34, 104, 116, 116, 112, 58, 47, 47, 119, 111, 114, 100, 112, 114, 101, 115, 115, 46, 111, 114, 103, 47, 101, 120, 112, 111, 114, 116, 47, 49, 46, 50, 47, 101, 120, 99, 101, 114, 112, 116, 47, 34, 32, 120, 109, 108, 110, 115, 58, 99, 111, 110, 116, 101, 110, 116, 61, 34, 104, 116, 116, 112, 58, 47, 47, 112, 117, 114, 108, 46, 111, 114, 103, 47, 114, 115, 115, 47, 49, 46, 48, 47, 109, 111, 100, 117, 108, 101, 115, 47, 99, 111, 110, 116, 101, 110, 116, 47, 34, 32, 120, 109, 108, 110, 115, 58, 119, 102, 119, 61, 34, 104, 116, 116, 112, 58, 47, 47, 119, 101, 108, 108, 102, 111, 114, 109, 101, 100, 119, 101, 98, 46, 111, 114, 103, 47, 67, 111, 109, 109, 101, 110, 116, 65, 80, 73, 47, 34, 32, 120, 109, 108, 110, 115, 58, 100, 99, 61, 34, 104, 116, 116, 112, 58, 47, 47, 112, 117, 114, 108, 46, 111, 114, 103, 47, 100, 99, 47, 101, 108, 101, 109, 101, 110, 116, 115, 47, 49, 46, 49, 47, 34, 32, 120, 109, 108, 110, 115, 58, 119, 112, 61, 34, 104, 116, 116, 112, 58, 47, 47, 119, 111, 114, 100, 112, 114, 101, 115, 115, 46, 111, 114, 103, 47, 101, 120, 112, 111, 114, 116, 47, 49, 46, 50, 47, 34, 62>>   \* <rss version="2.0" xmlns:excerpt="http://wordpress.org/export/1.2/excerpt/" xmlns:content="http://purl.org/rss/1.0/modules/content/" xmlns:wfw="http://wellformedweb.org/CommentAPI/" xmlns:dc="http://purl.org/dc/elements/1.1/" xmlns:wp="http://wordpress.org/export/1.2/">
        channelInfo == <<60, 99, 104, 97, 110, 110, 101, 108, 62, 60, 116, 105, 116, 108, 101, 62, 77, 105, 103, 114, 97, 116, 101, 100, 32, 66, 108, 111, 103, 60, 47, 116, 105, 116, 108, 101, 62, 60, 108, 105, 110, 107, 62, 104, 116, 116, 112, 115, 58, 47, 47, 110, 101, 119, 115, 105, 116, 101, 46, 99, 111, 109, 60, 47, 108, 105, 110, 107, 62, 60, 100, 101, 115, 99, 114, 105, 112, 116, 105, 111, 110, 62, 77, 105, 103, 114, 97, 116, 101, 100, 32, 99, 111, 110, 116, 101, 110, 116, 60, 47, 100, 101, 115, 99, 114, 105, 112, 116, 105, 111, 110, 62, 60, 112, 117, 98, 68, 97, 116, 101, 62, 84, 117, 101, 44, 32, 48, 53, 32, 77, 97, 114, 32, 50, 48, 50, 52, 32, 48, 48, 58, 48, 48, 58, 48, 48, 32, 43, 48, 48, 48, 48, 60, 47, 112, 117, 98, 68, 97, 116, 101, 62, 60, 108, 97, 110, 103, 117, 97, 103, 101, 62, 101, 110, 45, 85, 83, 60, 47, 108, 97, 110, 103, 117, 97, 103, 101, 62, 60, 119, 112, 58, 119, 120, 114, 95, 118, 101, 114, 115, 105, 111, 110, 62, 49, 46, 50, 60, 47, 119, 112, 58, 119, 120, 114, 95, 118, 101, 114, 115, 105, 111, 110, 62, 60, 119, 112, 58, 98, 97, 115, 101, 95, 115, 105, 116, 101, 95, 117, 114, 108, 62, 104, 116, 116, 112, 115, 58, 47, 47, 110, 101, 119, 115, 105, 116, 101, 46, 99, 111, 109, 60, 47, 119, 112, 58, 98, 97, 115, 101, 95, 115, 105, 116, 101, 95, 117, 114, 108, 62, 60, 119, 112, 58, 98, 97, 115, 101, 95, 98, 108, 111, 103, 95, 117, 114, 108, 62, 104, 116, 116, 112, 115, 58, 47, 47, 110, 101, 119, 115, 105, 116, 101, 46, 99, 111, 109, 60, 47, 119, 112, 58, 98, 97, 115, 101, 95, 98, 108, 111, 103, 95, 117, 114, 108, 62>>   \* <channel><title>Migrated Blog</title><link>https://newsite.com</link><description>Migrated content</description><pubDate>Tue, 05 Mar 2024 00:00:00 +0000</pubDate><language>en-US</language><wp:wxr_version>1.2</wp:wxr_version><wp:base_site_url>https://newsite.com</wp:base_site_url><wp:base_blog_url>https://newsite.com</wp:base_blog_url>
        itemOpen == <<60, 105, 116, 101, 109, 62>>   \* <item>
        itemClose == <<60, 47, 105, 116, 101, 109, 62>>   \* </item>
        titleName == <<116, 105, 116, 108, 101>>   \* title
        linkName == <<108, 105, 110, 107>>   \* link
        pubDateName == <<112, 117, 98, 68, 97, 116, 101>>   \* pubDate
        creatorName == <<100, 99, 58, 99, 114, 101, 97, 116, 111, 114>>   \* dc:creator
        postIdName == <<119, 112, 58, 112, 111, 115, 116, 95, 105, 100>>   \* wp:post_id
        postDateName == <<119, 112, 58, 112, 111, 115, 116, 95, 100, 97, 116, 101>>   \* wp:post_date
        postDateGmtName == <<119, 112, 58, 112, 111, 115, 116, 95, 100, 97, 116, 101, 95, 103, 109, 116>>   \* wp:post_date_gmt
        postNameName == <<119, 112, 58, 112, 111, 115, 116, 95, 110, 97, 109, 101>>   \* wp:post_name
        pubDateText == <<84, 117, 101, 44, 32, 48, 53, 32, 77, 97, 114, 32, 50, 48, 50, 52, 32, 48, 48, 58, 48, 48, 58, 48, 48, 32, 43, 48, 48, 48, 48>>   \* Tue, 05 Mar 2024 00:00:00 +0000
        postDateText == <<50, 48, 50, 52, 45, 48, 51, 45, 48, 53, 32, 48, 48, 58, 48, 48, 58, 48, 48>>   \* 2024-03-05 00:00:00
        guidOpen == <<60, 103, 117, 105, 100, 32, 105, 115, 80, 101, 114, 109, 97, 76, 105, 110, 107, 61, 34, 102, 97, 108, 115, 101, 34, 62>>   \* <guid isPermaLink="false">
        guidShort == <<60, 103, 117, 105, 100, 32, 105, 115, 80, 101, 114, 109, 97, 76, 105, 110, 107, 61, 34, 102, 97, 108, 115, 101, 34, 32, 47, 62>>   \* <guid isPermaLink="false" />
        guidClose == <<60, 47, 103, 117, 105, 100, 62>>   \* </guid>
        description == <<60, 100, 101, 115, 99, 114, 105, 112, 116, 105, 111, 110, 32, 47, 62>>   \* <description />
        status == <<60, 119, 112, 58, 115, 116, 97, 116, 117, 115, 62, 112, 117, 98, 108, 105, 115, 104, 60, 47, 119, 112, 58, 115, 116, 97, 116, 117, 115, 62>>   \* <wp:status>publish</wp:status>
        postType == <<60, 119, 112, 58, 112, 111, 115, 116, 95, 116, 121, 112, 101, 62, 112, 111, 115, 116, 60, 47, 119, 112, 58, 112, 111, 115, 116, 95, 116, 121, 112, 101, 62>>   \* <wp:post_type>post</wp:post_type>
        postPassword == <<60, 119, 112, 58, 112, 111, 115, 116, 95, 112, 97, 115, 115, 119, 111, 114, 100, 32, 47, 62>>   \* <wp:post_password />
        contentOpen == <<60, 99, 111, 110, 116, 101, 110, 116, 58, 101, 110, 99, 111, 100, 101, 100, 62>>   \* <content:encoded>
        contentClose == <<60, 47, 99, 111, 110, 116, 101, 110, 116, 58, 101, 110, 99, 111, 100, 101, 100, 62>>   \* </content:encoded>
        contentShort == <<60, 99, 111, 110, 116, 101, 110, 116, 58, 101, 110, 99, 111, 100, 101, 100, 32, 47, 62>>   \* <content:encoded />
        categoryOpen == <<60, 99, 97, 116, 101, 103, 111, 114, 121, 32, 100, 111, 109, 97, 105, 110, 61, 34, 99, 97, 116, 101, 103, 111, 114, 121, 34, 32, 110, 105, 99, 101, 110, 97, 109, 101, 61, 34>>   \* <category domain="category" nicename="
        tagOpen == <<60, 99, 97, 116, 101, 103, 111, 114, 121, 32, 100, 111, 109, 97, 105, 110, 61, 34, 112, 111, 115, 116, 95, 116, 97, 103, 34, 32, 110, 105, 99, 101, 110, 97, 109, 101, 61, 34>>   \* <category domain="post_tag" nicename="
        attrEnd == <<34, 62>>   \* ">
        attrEndShort == <<34, 32, 47, 62>>   \* " />
        categoryClose == <<60, 47, 99, 97, 116, 101, 103, 111, 114, 121, 62>>   \* </category>
        excerpt == <<60, 101, 120, 99, 101, 114, 112, 116, 58, 101, 110, 99, 111, 100, 101, 100, 32, 47, 62>>   \* <excerpt:encoded />
        close == <<60, 47, 99, 104, 97, 110, 110, 101, 108, 62, 60, 47, 114, 115, 115, 62>>   \* </channel></rss>
        hyphen == <<45>>   \* -
        nl == <<38, 35, 49, 48, 59>>   \* &#10;
        cr == <<38, 35, 49, 51, 59>>   \* &#13;
        tab == <<38, 35, 48, 57, 59>>   \* &#09;
        \* _escape_cdata
        text(s) == ETElement(s).text
        \* _escape_attrib
        attrib(s) ==
            StrReplace(StrReplace(StrReplace(StrReplace(
                StrReplace(StrReplace(StrReplace(s, <<ChAmp>>, EntAmp), <<ChLt>>, EntLt), <<ChGt>>, EntGt),
                <<ChQuot>>, EntQuot), <<13>>, cr), <<10>>, nl), <<9>>, tab)
        element(name, s) ==
            IF s = <<>> THEN <<ChLt>> \o name \o <<ChSpace, 47, ChGt>>
            ELSE <<ChLt>> \o name \o <<ChGt>> \o text(s) \o <<ChLt, 47>> \o name \o <<ChGt>>
        labelElement(open, label) ==
            open \o attrib(StrReplace(LowerStr(label), <<ChSpace>>, hyphen))
                 \o (IF label = <<>> THEN attrEndShort ELSE attrEnd \o text(label) \o categoryClose)
        encoded(content) ==
            LET elem == ModernContentEncoded(content)
            IN  IF elem.cdata THEN contentOpen \o CdataOpen \o elem.body \o CdataEnd \o contentClose
                ELSE IF elem.body = <<>> THEN contentShort
                ELSE contentOpen \o elem.body \o contentClose
        item(post) ==
            Flatten(
              <<itemOpen,
                element(titleName, post.title),
                element(linkName, post.url),
                element(pubDateName, IF post.date THEN pubDateText ELSE <<>>),
                element(creatorName, post.author),
                IF post.url = <<>> THEN guidShort ELSE guidOpen \o text(post.url) \o guidClose,
                description,
                element(postIdName, DecimalDigits(h[post.url] % PostIdModulus)),
                element(postDateName, IF post.date THEN postDateText ELSE <<>>),
                element(postDateGmtName, IF post.date THEN postDateText ELSE <<>>),
                element(postNameName, post.slug),
                status, postType, postPassword,
                encoded(post.content)>>
              \o [k \in 1..Len(post.tags) |-> labelElement(tagOpen, post.tags[k])]
              \o [k \in 1..Len(post.categories) |-> labelElement(categoryOpen, post.categories[k])]
              \o <<excerpt, itemClose>>)
    IN  IF posts = <<>> THEN <<>>
        ELSE declaration \o <<10>> \o rssOpen \o channelInfo
             \o Flatten([i \in 1..Len(posts) |-> item(posts[i])]) \o close

\* the posts the batches are built from: a title and a content that read
\* as markup, labels with capitals, spaces, '&' and other characters; two
\* posts of a batch may share the title, the URL or both
DocPostSet ==
    LET
        markupTitle == <<60, 105, 116, 101, 109, 62>>   \* <item>
        plainTitle == <<116>>   \* t
        markupContent == <<60, 105, 116, 101, 109, 62>>   \* <item>
        closingContent == <<93, 93, 62, 60, 105, 116, 101, 109, 62>>   \* ]]><item>
        url1 == <<104, 116, 116, 112, 58, 47, 47, 104, 47, 97>>   \* http://h/a
        url2 == <<104, 116, 116, 112, 58, 47, 47, 104, 47, 98, 63, 99, 61, 49, 38, 100, 61, 50>>   \* http://h/b?c=1&d=2
        author == <<85, 110, 107, 110, 111, 119, 110>>   \* Unknown
        slug == <<97, 45, 98>>   \* a-b
        label1 == <<82, 38, 68, 32, 120>>   \* R&D x
        label2 == <<81, 95, 57, 45, 201>>   \* Q_9-\xC9
    IN  { [title |-> b[1], url |-> m.url, author |-> author, slug |-> slug, date |-> m.date,
           content |-> b[2], categories |-> m.categories, tags |-> m.tags] :
            b \in { <<markupTitle, markupContent>>, <<markupTitle, closingContent>>,
                    <<plainTitle, closingContent>> },
            m \in { [url |-> url1, date |-> FALSE, categories |-> <<>>, tags |-> <<>>],
                    [url |-> url2, date |-> TRUE, categories |-> <<label1>>, tags |-> <<label2, label1>>] } }

DocInit ==
    /\ docPc = "input"
    /\ docPosts \in PieceSeqs(DocPostSet, MaxBatch)
    /\ docXml = <<>>

\* the str hashes the process gives the URLs of the batch
DocHashes(posts) == [{ posts[i].url : i \in 1..Len(posts) } -> HashValues]

\* xml_content = generate_wordpress_xml_fixed(posts)
SerializeBatchFixed ==
    /\ docPc = "input"
    /\ docPc' = "fixed"
    /\ \E h \in DocHashes(docPosts) : docXml' = GenerateWordpressXmlFixed(docPosts, h)
    /\ UNCHANGED <<docPosts, coreVars, callVars, sesVars>>

\* xml_content = generate_wordpress_xml(posts)
SerializeBatchModern ==
    /\ docPc = "input"
    /\ docPc' = "modern"
    /\ \E h \in DocHashes(docPosts) : docXml' = GenerateWordpressXml(docPosts, h)
    /\ UNCHANGED <<docPosts, coreVars, callVars, sesVars>>

DocumentInit == DocInit /\ CoreIdle /\ CallIdle /\ SesIdle
DocumentNext == SerializeBatchFixed \/ SerializeBatchModern
SpecDocument == DocumentInit /\ [][DocumentNext]_vars

--------------------------------------------------------------------------
(* urllib.parse.urlparse, for the URLs and hrefs of the model.             *)

\* F applied to the value of v, which is computed once
Once(v, F(_)) == CHOOSE r \in {F(w) : w \in {v}} : TRUE

\* the 1-based position of the first character of s at or after i that is
\* in chars, Len(s) + 1 when there is none
FirstOf(s, chars, i) ==
    LET hits == { j \in i..Len(s) : s[j] \in chars }
    IN  IF hits = {} THEN Len(s) + 1 ELSE CHOOSE j \in hits : \A k \in hits : j <= k

\* the 1-based position of the last character of s that is in chars, 0 when
\* there is none
LastOf(s, chars) ==
    LET hits == { j \in 1..Len(s) : s[j] \in chars }
    IN  IF hits = {} THEN 0 ELSE CHOOSE j \in hits : \A k \in hits : j >= k

\* urlparse(url): scheme (lowercased) up to the first ':' when what precedes
\* it reads as a scheme, netloc after '//' up to the next '/', '?' or '#',
\* then fragment, query and params split off the rest
UrlParse(url) ==
    Once(url, LAMBDA u :
    Once(FirstOf(u, {58}, 1), LAMBDA colon :
    Once(/\ 1 < colon /\ colon <= Len(u)
         /\ IsLetter(u[1])
         /\ \A k \in 1..(colon - 1) :
               IsLetter(u[k]) \/ (48 <= u[k] /\ u[k] <= 57) \/ u[k] \in {43, 45, 46},
         LAMBDA isScheme :
    Once(IF isScheme THEN SubSeq(u, colon + 1, Len(u)) ELSE u, LAMBDA afterScheme :
    Once(StartsWithAt(afterScheme, 1, <<47, 47>>), LAMBDA hasNetloc :
    Once(FirstOf(afterScheme, {47, 63, 35}, 3), LAMBDA netlocEnd :
    Once(IF hasNetloc THEN SubSeq(afterScheme, netlocEnd, Len(afterScheme)) ELSE afterScheme,
         LAMBDA afterNetloc :
    Once(FirstOf(afterNetloc, {35}, 1), LAMBDA hash :
    Once(SubSeq(afterNetloc, 1, hash - 1), LAMBDA beforeHash :
    Once(FirstOf(beforeHash, {63}, 1), LAMBDA mark :
    Once(SubSeq(beforeHash, 1, mark - 1), LAMBDA fullPath :
    Once(FirstOf(fullPath, {59}, LastOf(fullPath, {47}) + 1), LAMBDA semi :
        [scheme |-> IF isScheme THEN LowerStr(SubSeq(u, 1, colon - 1)) ELSE <<>>,
         netloc |-> IF hasNetloc THEN SubSeq(afterScheme, 3, netlocEnd - 1) ELSE <<>>,
         path |-> SubSeq(fullPath, 1, semi - 1),
         params |-> SubSeq(fullPath, semi + 1, Len(fullPath)),
         query |-> SubSeq(beforeHash, mark + 1, Len(beforeHash)),
         fragment |-> SubSeq(afterNetloc, hash + 1, Len(afterNetloc))]))))))))))))

--------------------------------------------------------------------------
(* SpecSlug: the slug of a post, as each extractor derives it.             *)

\* c.isalnum() for the code points of Latin-1
IsAlnum(c) ==
    \/ IsLetter(c) \/ (48 <= c /\ c <= 57)
    \/ c \in {170, 178, 179, 181, 185, 186, 188, 189, 190}
    \/ (192 <= c /\ c <= 255 /\ c # 215 /\ c # 247)

MaxSlugLen == 50
MaxLabelLen == 50
SmartMaxTags == 10
SmartMaxCategories == 5

\* s.strip(chars) for one character
StripChar(s, ch) ==
    LET keep == { j \in 1..Len(s) : s[j] # ch }
    IN  IF keep = {} THEN <<>>
        ELSE SubSeq(s, CHOOSE j \in keep : \A k \in keep : j <= k,
                       CHOOSE j \in keep : \A k \in keep : j >= k)

\* re.sub(r'-+', '-', s)
CollapseHyphens(s) ==
    LET kept == { j \in 1..Len(s) : ~(s[j] = 45 /\ j > 1 /\ s[j - 1] = 45) }
        Nth(n) == CHOOSE j \in kept : Cardinality({ k \in kept : k <= j }) = n
    IN  [n \in 1..Cardinality(kept) |-> s[Nth(n)]]

\* smart_extractor: the slug try_trafilatura and try_newspaper3k derive from
\* the title
SmartSlug(title) ==
    LET replaced == StrReplace(StrReplace(LowerStr(title), <<ChSpace>>, <<45>>), <<ChAmp>>, <<97, 110, 100>>)
        kept == SelectSeq(replaced, LAMBDA c : IsAlnum(c) \/ c = 45)
    IN  Slice(kept, 0, MaxSlugLen)

\* modern_extractor.extract_slug_from_url
ExtractSlugFromUrl(url) ==
    LET
        htm == <<46, 104, 116, 109>>   \* .htm
        html == <<46, 104, 116, 109, 108>>   \* .html
        post == <<112, 111, 115, 116>>   \* post
        EndsWith(s, suffix) == Len(s) >= Len(suffix) /\ StartsWithAt(s, Len(s) - Len(suffix) + 1, suffix)
        path == StripChar(UrlParse(url).path, 47)
        stem == IF EndsWith(path, htm) \/ EndsWith(path, html)
                THEN SubSeq(path, 1, LastOf(path, {46}) - 1) ELSE path
        last == SubSeq(stem, LastOf(stem, {47}) + 1, Len(stem))
        dashed == [j \in 1..Len(last) |->
                     IF IsLetter(last[j]) \/ (48 <= last[j] /\ last[j] <= 57) \/ last[j] = 45
                     THEN last[j] ELSE 45]
        slug == StripChar(CollapseHyphens(dashed), 45)
    IN  IF slug = <<>> THEN post ELSE slug

\* BrowserScraper.extract_content, "Generate slug", for a URL with a '/'
BrowserSlug(url) ==
    LET
        htm == <<46, 104, 116, 109>>   \* .htm
        html == <<46, 104, 116, 109, 108>>   \* .html
        post == <<112, 111, 115, 116>>   \* post
        EndsWith(s, suffix) == Len(s) >= Len(suffix) /\ StartsWithAt(s, Len(s) - Len(suffix) + 1, suffix)
        cut == LastOf(url, {47})
        lastPart == SubSeq(url, cut + 1, Len(url))
        head == SubSeq(url, 1, cut - 1)
        part == IF lastPart # <<>> THEN lastPart
                ELSE SubSeq(head, LastOf(head, {47}) + 1, Len(head))
        stem == IF EndsWith(part, html) THEN SubSeq(part, 1, Len(part) - Len(html))
                ELSE IF EndsWith(part, htm) THEN SubSeq(part, 1, Len(part) - Len(htm))
                ELSE part
        slug == [j \in 1..Len(stem) |->
                    IF IsSlugChar(Lower(stem[j])) THEN Lower(stem[j]) ELSE 45]
    IN  IF slug = <<>> THEN post ELSE slug

\* the pages: a title and a URL each; titles with capitals, '&', signs only,
\* a letter outside ASCII and more than 50 characters, URLs with a file
\* extension, a trailing slash, no path, a query and a long last segment
SlugPages ==
    LET
        t1 == <<72, 101, 108, 108, 111, 32, 87, 111, 114, 108, 100>>   \* Hello World
        t2 == <<82, 38, 68, 58, 32, 81, 38, 65>>   \* R&D: Q&A
        t3 == <<63, 63, 63, 63, 63, 63>>   \* ??????
        t4 == <<67, 97, 102, 233, 32, 49, 50>>   \* Caf\xe9 12
        u1 == <<104, 116, 116, 112, 115, 58, 47, 47, 104, 47, 98, 108, 111, 103, 47, 77, 121, 45, 80, 111, 115, 116, 46, 104, 116, 109, 108>>   \* https://h/blog/My-Post.html
        u2 == <<104, 116, 116, 112, 115, 58, 47, 47, 104, 47, 97, 47>>   \* https://h/a/
        u3 == <<104, 116, 116, 112, 115, 58, 47, 47, 104, 47>>   \* https://h/
        u4 == <<104, 116, 116, 112, 115, 58, 47, 47, 104, 47, 112, 95, 49, 63, 105, 100, 61, 50>>   \* https://h/p_1?id=2
        u5 == <<104, 116, 116, 112, 115, 58, 47, 47, 104, 47, 97, 45, 45, 98, 46, 104, 116, 109>>   \* https://h/a--b.htm
        site == <<104, 116, 116, 112, 115, 58, 47, 47, 104, 47>>   \* https://h/
        u6 == <<104, 116, 116, 112, 115, 58, 47, 47, 104, 47, 65, 46, 72, 84, 77, 76>>   \* https://h/A.HTML
        long == [j \in 1..(MaxSlugLen + SlugPad) |-> ChX]
    IN  [title : {t1, t2, t3, t4, long}, url : {u1, u2, u3, u4, u5, u6, site \o long}]

SlugInit == callFn = "input" /\ callArg \in SlugPages /\ callRet = <<>>

\* try_trafilatura / try_newspaper3k give the post its slug; the post is
\* produced when it passes the gate, which asks this much of the title
SmartDerivesSlug ==
    /\ callFn = "input"
    /\ Len(Strip(callArg.title)) > MinTitleLen /\ Len(Strip(callArg.title)) < MaxTitleLen
    /\ callFn' = "smart_slug"
    /\ callRet' = SmartSlug(callArg.title)
    /\ UNCHANGED <<callArg, coreVars, docVars, sesVars>>

\* modern_extractor.extract_blog_post: slug = extract_slug_from_url(url)
ModernDerivesSlug ==
    /\ callFn = "input"
    /\ callFn' = "modern_slug"
    /\ callRet' = ExtractSlugFromUrl(callArg.url)
    /\ UNCHANGED <<callArg, coreVars, docVars, sesVars>>

\* BrowserScraper.extract_content: 'slug': slug or 'post'
BrowserDerivesSlug ==
    /\ callFn = "input"
    /\ callFn' = "browser_slug"
    /\ callRet' = BrowserSlug(callArg.url)
    /\ UNCHANGED <<callArg, coreVars, docVars, sesVars>>

SlugNext == SmartDerivesSlug \/ ModernDerivesSlug \/ BrowserDerivesSlug
SlugStart == SlugInit /\ CoreIdle /\ DocIdle /\ SesIdle
SpecSlug == SlugStart /\ [][SlugNext]_vars

--------------------------------------------------------------------------
(* SpecClean: the content area of a page through the cleaning of an        *)
(* extractor.  Markup is modelled as BeautifulSoup holds it: an element    *)
(* has a name, the names of its attributes, whether it holds text of its   *)
(* own, and its child elements.  The content areas of the model hold       *)
(* paragraphs, anchors, images, script and style elements (no span, font,  *)
(* b, i, u, center, section, heading or list).                             *)

Element(name, attrs, text, kids) == [name |-> name, attrs |-> attrs, text |-> text, kids |-> kids]

\* find_all(['script', 'style', 'noscript']) / browser: also nav, header, footer
Unwanted == {"script", "style", "noscript"}

\* element.decompose() for the unwanted elements below the content area
Decompose(area) ==
    LET wanted(e) == e.name \notin Unwanted
        blocks == SelectSeq(area.kids, wanted)
    IN  [area EXCEPT !.kids = [b \in 1..Len(blocks) |->
                                  [blocks[b] EXCEPT !.kids = SelectSeq(@, wanted)]]]

\* elem.get_text(strip=True) is not empty
HasText(e) == e.text \/ \E k \in 1..Len(e.kids) : e.kids[k].text

\* images = content_area.find_all('img', src=True), each written as
\* <img src="..." alt="..." /> (the area as it was before the cleaning)
ImagesOf(area) ==
    LET inner == Flatten([b \in 1..Len(area.kids) |-> area.kids[b].kids])
        found == SelectSeq(inner, LAMBDA e : e.name = "img" /\ "src" \in e.attrs)
    IN  [k \in 1..Len(found) |-> Element("img", {"src", "alt"}, FALSE, <<>>)]

\* modern_extractor.extract_blog_post, "Build clean HTML" to the wrapper
\* div, for a content area that was found; convert_internal_links_to_relative
\* re-serializes the markup and changes href values only
ModernCleanHtml(area) ==
    LET \* lines 118-129
        allowed(e) ==
            IF e.name = "a" /\ "href" \in e.attrs THEN {"href"}
            ELSE IF e.name = "img" THEN e.attrs \cap {"src", "alt"}
            ELSE {}
        copy == Decompose(area)
        inner(es) == [k \in 1..Len(es) |-> [es[k] EXCEPT !.attrs = allowed(es[k])]]
        blocks == [b \in 1..Len(copy.kids) |->
                      [copy.kids[b] EXCEPT !.attrs = allowed(copy.kids[b]), !.kids = inner(@)]]
        \* lines 145-148: a div without block elements becomes a paragraph
        rootName == IF copy.name = "div" /\ blocks = <<>> THEN "p" ELSE copy.name
        \* lines 151-183: the area itself, when it is a div or a paragraph with
        \* text, takes the children of its paragraphs (unwrap) and is written
        \* as one paragraph; the unwrapped paragraphs are empty when their
        \* turn comes; otherwise every paragraph with text is written
        rootListed == rootName \in {"div", "p"} /\ (copy.text \/ \E b \in 1..Len(blocks) : HasText(blocks[b]))
        written ==
            IF rootListed
            THEN <<Element("p", {}, TRUE, Flatten([b \in 1..Len(blocks) |-> blocks[b].kids]))>>
            ELSE IF rootName \in {"div", "p"} THEN <<>>
            ELSE SelectSeq(blocks, HasText)
    IN  \* line 245: <div class='post-content'>
        Element("div", {"class"}, FALSE, written \o ImagesOf(area))

\* BrowserScraper.clean_content; the post's content is its result, the
\* elements written one after the other (no class of the area matches
\* share|social|comment|sidebar|widget)
BrowserCleanContent(area) ==
    LET \* lines 290-300: the descendants of a written element
        cleaned(e) ==
            IF e.name = "a" /\ "href" \in e.attrs THEN {"href"}
            ELSE IF e.name = "img" THEN (IF "src" \in e.attrs THEN {"src", "alt"} ELSE e.attrs)
            ELSE {}
        copy == Decompose(area)
        texts == SelectSeq(copy.kids, HasText)
        inner(es) == [k \in 1..Len(es) |-> Element(es[k].name, cleaned(es[k]), es[k].text, es[k].kids)]
        written == [b \in 1..Len(texts) |->
                       Element(texts[b].name, texts[b].attrs, texts[b].text, inner(texts[b].kids))]
    IN  written \o ImagesOf(area)

\* the content areas: a div or an article with a class, holding paragraphs
\* with and without a class, each with at most one anchor, image or script,
\* and style elements
ContentAreas ==
    LET inlines ==
            { Element("a", {"href", "onclick"}, TRUE, <<>>),
              Element("a", {"onclick"}, TRUE, <<>>),
              Element("img", {"src", "alt", "class"}, FALSE, <<>>),
              Element("img", {"class"}, FALSE, <<>>),
              Element("script", {}, TRUE, <<>>) }
        paragraphs ==
            { Element("p", attrs, TRUE, kids) :
                attrs \in {{}, {"class"}}, kids \in {<<>>} \cup { <<e>> : e \in inlines } }
        blocks ==
            paragraphs \cup { Element("p", {}, FALSE, <<Element("img", {"src", "alt", "class"}, FALSE, <<>>)>>),
                              Element("style", {}, TRUE, <<>>) }
    IN  { Element(name, {"class"}, FALSE, kids) :
            name \in {"div", "article"}, kids \in PieceSeqs(blocks, MaxBlocks) }

CleanInit == callFn = "input" /\ callArg \in ContentAreas /\ callRet = <<>>

\* modern_extractor: 'content' of the post newspaper3k's branch returns
ModernCleansContent ==
    /\ callFn = "input"
    /\ callFn' = "modern_content"
    /\ callRet' = <<ModernCleanHtml(callArg)>>
    /\ UNCHANGED <<callArg, coreVars, docVars, sesVars>>

\* browser_scraper: clean_html = self.clean_content(content_area)
BrowserCleansContent ==
    /\ callFn = "input"
    /\ callFn' = "browser_content"
    /\ callRet' = BrowserCleanContent(callArg)
    /\ UNCHANGED <<callArg, coreVars, docVars, sesVars>>

CleanNext == ModernCleansContent \/ BrowserCleansContent
CleanStart == CleanInit /\ CoreIdle /\ DocIdle /\ SesIdle
SpecClean == CleanStart /\ [][CleanNext]_vars

--------------------------------------------------------------------------
(* SpecLoad: the URL list file through the loader of each driver.  A file  *)
(* is the sequence of its lines as iteration yields them, each with its    *)
(* line end.                                                               *)

\* line.startswith('#')
StartsWithHash(line) == StartsWithAt(line, 1, <<35>>)

\* batch_extract.load_urls_from_file and the main of run_scraper.py: strip,
\* then test the stripped line
LoadUrlsFromFile(lines) ==
    SelectSeq([k \in 1..Len(lines) |-> Strip(lines[k])],
              LAMBDA line : line # <<>> /\ ~StartsWithHash(line))

\* the main of browser_scraper.py:
\* [line.strip() for line in f if line.strip() and not line.startswith('#')]
ScraperMainUrls(lines) ==
    LET kept == SelectSeq(lines, LAMBDA line : Strip(line) # <<>> /\ ~StartsWithHash(line))
    IN  [k \in 1..Len(kept) |-> Strip(kept[k])]

\* the lines of the files: blank, comments with and without indentation,
\* URLs with and without blanks around them, a URL with a fragment
UrlFileLines ==
    LET
        blank == <<>>   \* ''
        spaces == <<32, 32>>   \* '  '
        comment == <<35, 32, 111, 108, 100>>   \* '# old'
        indented == <<32, 32, 35, 32, 111, 108, 100>>   \* '  # old'
        url == <<104, 116, 116, 112, 58, 47, 47, 104, 47, 97>>   \* 'http://h/a'
        padded == <<32, 104, 116, 116, 112, 58, 47, 47, 104, 47, 98, 32>>   \* ' http://h/b '
        fragment == <<104, 116, 116, 112, 58, 47, 47, 104, 47, 97, 35, 99>>   \* 'http://h/a#c'
    IN  { line \o <<10>> : line \in {blank, spaces, comment, indented, url, padded, fragment} }

LoadInit == callFn = "input" /\ callArg \in PieceSeqs(UrlFileLines, MaxLines) /\ callRet = <<>>

\* batch_extract: urls = load_urls_from_file()
BatchExtractLoads ==
    /\ callFn = "input"
    /\ callFn' = "load_urls_from_file"
    /\ callRet' = LoadUrlsFromFile(callArg)
    /\ UNCHANGED <<callArg, coreVars, docVars, sesVars>>

\* run_scraper.py main, "Load URLs"
RunScraperLoads ==
    /\ callFn = "input"
    /\ callFn' = "run_scraper"
    /\ callRet' = LoadUrlsFromFile(callArg)
    /\ UNCHANGED <<callArg, coreVars, docVars, sesVars>>

\* browser_scraper.py main, "Check for URLs file"
ScraperMainLoads ==
    /\ callFn = "input"
    /\ callFn' = "scraper_main"
    /\ callRet' = ScraperMainUrls(callArg)
    /\ UNCHANGED <<callArg, coreVars, docVars, sesVars>>

LoadNext == BatchExtractLoads \/ RunScraperLoads \/ ScraperMainLoads
LoadStart == LoadInit /\ CoreIdle /\ DocIdle /\ SesIdle
SpecLoad == LoadStart /\ [][LoadNext]_vars

--------------------------------------------------------------------------
(* SpecLinks: the anchors of a content through the hyperlink classifiers   *)
(* and the link rewriting.  The content is the sequence of the href values *)
(* of its anchors, as soup.find_all('a', href=True) yields them.           *)

\* urlparse(url) raises ValueError('Invalid IPv6 URL'): one of '[' and ']'
\* is in the netloc without the other
UrlParseRaises(url) ==
    Once(UrlParse(url).netloc, LAMBDA netloc :
        (\E k \in 1..Len(netloc) : netloc[k] = 91) # (\E k \in 1..Len(netloc) : netloc[k] = 93))

\* parsed.path + ('?' + parsed.query) + ('#' + parsed.fragment)
RelativeUrl(parsed) ==
    parsed.path
    \o (IF parsed.query # <<>> THEN <<63>> \o parsed.query ELSE <<>>)
    \o (IF parsed.fragment # <<>> THEN <<35>> \o parsed.fragment ELSE <<>>)

\* modern_extractor.extract_hyperlinks_from_content
ExtractHyperlinksFromContent(hrefs, source_url) ==
    LET source_domain == LowerStr(UrlParse(source_url).netloc)
        stripped == [k \in 1..Len(hrefs) |-> Strip(hrefs[k])]
        links == SelectSeq(stripped, LAMBDA href : href # <<>> /\ href[1] # 35)
        class(href) ==
            LET parsed == UrlParse(href)
            IN  IF UrlParseRaises(href) THEN "relative"
                ELSE IF parsed.netloc = <<>> THEN "relative"
                ELSE IF LowerStr(parsed.netloc) = source_domain THEN "internal"
                ELSE "external"
        of(c) == SelectSeq(links, LAMBDA href : class(href) = c)
    IN  [internal_links |-> [k \in 1..Len(of("internal")) |->
                                [url |-> of("internal")[k],
                                 relative_url |-> RelativeUrl(UrlParse(of("internal")[k]))]],
         external_links |-> [k \in 1..Len(of("external")) |->
                                [url |-> of("external")[k],
                                 domain |-> LowerStr(UrlParse(of("external")[k]).netloc)]],
         relative_links |-> [k \in 1..Len(of("relative")) |-> [url |-> of("relative")[k]]]]

\* smart_extractor.extract_links raises: urlparse(href) of a link that starts
\* with 'http' raises, and nothing catches it
ExtractLinksRaises(hrefs) ==
    \E k \in 1..Len(hrefs) :
        /\ StartsWithAt(Strip(hrefs[k]), 1, <<104, 116, 116, 112>>)
        /\ UrlParseRaises(Strip(hrefs[k]))

\* smart_extractor.extract_links, the value it returns
ExtractLinks(hrefs, base_url) ==
    LET
        mailto == <<109, 97, 105, 108, 116, 111, 58>>   \* mailto:
        tel == <<116, 101, 108, 58>>   \* tel:
        http == <<104, 116, 116, 112>>   \* http
        base_domain == UrlParse(base_url).netloc
        stripped == [k \in 1..Len(hrefs) |-> Strip(hrefs[k])]
        links == SelectSeq(stripped, LAMBDA href :
                     /\ href # <<>>
                     /\ ~StartsWithAt(href, 1, <<35>>)
                     /\ ~StartsWithAt(href, 1, mailto)
                     /\ ~StartsWithAt(href, 1, tel))
        class(href) ==
            IF StartsWithAt(href, 1, http)
            THEN IF UrlParse(href).netloc = base_domain THEN "internal" ELSE "external"
            ELSE "relative"
        of(c) == SelectSeq(links, LAMBDA href : class(href) = c)
        withDomain(ls) == [k \in 1..Len(ls) |-> [url |-> ls[k], domain |-> UrlParse(ls[k]).netloc]]
    IN  [internal_links |-> withDomain(of("internal")),
         external_links |-> withDomain(of("external")),
         relative_links |-> [k \in 1..Len(of("relative")) |-> [url |-> of("relative")[k]]]]

\* modern_extractor.convert_internal_links_to_relative: the href of every
\* anchor after the rewriting
ConvertInternalLinksToRelative(hrefs, source_url) ==
    LET source_domain == LowerStr(UrlParse(source_url).netloc)
    IN  [k \in 1..Len(hrefs) |->
            LET parsed == UrlParse(hrefs[k])
            IN  IF UrlParseRaises(hrefs[k]) THEN hrefs[k]
                ELSE IF LowerStr(parsed.netloc) = source_domain THEN RelativeUrl(parsed)
                ELSE hrefs[k]]

\* the pages: a source URL (one with a capital in its host, one without a
\* scheme, so without a host) and the hrefs of the anchors of its content
LinkPages ==
    LET
        s1 == <<104, 116, 116, 112, 115, 58, 47, 47, 104, 47, 112>>   \* 'https://h/p'
        s2 == <<104, 116, 116, 112, 115, 58, 47, 47, 72, 47, 112>>   \* 'https://H/p'
        s3 == <<104, 47, 112>>   \* 'h/p'
        h1 == <<104, 116, 116, 112, 115, 58, 47, 47, 104, 47, 97, 63, 98, 61, 49, 35, 99>>   \* 'https://h/a?b=1#c'
        h2 == <<104, 116, 116, 112, 115, 58, 47, 47, 72, 47, 97>>   \* 'https://H/a'
        h3 == <<47, 47, 104, 47, 97>>   \* '//h/a'
        h4 == <<104, 116, 116, 112, 115, 58, 47, 47, 120, 47, 97>>   \* 'https://x/a'
        h5 == <<47, 97>>   \* '/a'
        h6 == <<109, 97, 105, 108, 116, 111, 58, 97, 64, 120>>   \* 'mailto:a@x'
        h7 == <<35, 116, 111, 112>>   \* '#top'
        h8 == <<104, 116, 116, 112, 115, 58, 47, 47, 104, 47, 47, 120, 47, 97>>   \* 'https://h//x/a'
        h9 == <<97, 59, 98, 32>>   \* 'a;b '
    IN  [source : {s1, s2, s3},
         hrefs : PieceSeqs({h1, h2, h3, h4, h5, h6, h7, h8, h9, <<>>}, MaxAnchors)]

LinksInit == callFn = "input" /\ callArg \in LinkPages /\ callRet = <<>>

\* hyperlinks = extract_hyperlinks_from_content(link_extraction_content, url)
ModernClassifies ==
    /\ callFn = "input"
    /\ callFn' = "extract_hyperlinks_from_content"
    /\ callRet' = ExtractHyperlinksFromContent(callArg.hrefs, callArg.source)
    /\ UNCHANGED <<callArg, coreVars, docVars, sesVars>>

\* hyperlinks = extract_links(content, url)
SmartClassifies ==
    /\ callFn = "input"
    /\ callFn' = "extract_links"
    /\ callRet' = ExtractLinks(callArg.hrefs, callArg.source)
    /\ UNCHANGED <<callArg, coreVars, docVars, sesVars>>

\* processed_content = convert_internal_links_to_relative(clean_html, url)
ModernRewrites ==
    /\ callFn = "input"
    /\ callFn' = "convert_internal_links_to_relative"
    /\ callRet' = ConvertInternalLinksToRelative(callArg.hrefs, callArg.source)
    /\ UNCHANGED <<callArg, coreVars, docVars, sesVars>>

LinksNext == ModernClassifies \/ SmartClassifies \/ ModernRewrites
LinksStart == LinksInit /\ CoreIdle /\ DocIdle /\ SesIdle
SpecLinks == LinksStart /\ [][LinksNext]_vars

--------------------------------------------------------------------------
(* SpecLabels: the tags and the categories of a page.  A page is the text  *)
(* of the links of its '.tags' element, of its '.categories' element and   *)
(* of its other links with '/category/' in the href, and its URL.          *)

\* link.get_text(strip=True) of every link, those kept that are non-empty
\* and shorter than 50 characters
ShortTexts(links) ==
    SelectSeq([k \in 1..Len(links) |-> Strip(links[k])],
              LAMBDA text : text # <<>> /\ Len(text) < MaxLabelLen)

\* the orders list(set(labels)) can have: every arrangement of the
\* distinct labels
SetOrders(labels) ==
    LET S == {labels[k] : k \in 1..Len(labels)}
    IN  {f \in [1..Cardinality(S) -> S] : \A i, j \in 1..Cardinality(S) : f[i] = f[j] => i = j}

\* seq[:n]
Head_(seq, n) == SubSeq(seq, 1, IF Len(seq) < n THEN Len(seq) ELSE n)

\* url.split('/')
RECURSIVE SplitSlash(_)
SplitSlash(s) ==
    LET i == FirstOf(s, {47}, 1)
    IN  IF i > Len(s) THEN <<s>>
        ELSE <<SubSeq(s, 1, i - 1)>> \o SplitSlash(SubSeq(s, i + 1, Len(s)))

\* part.replace('-', ' ').title()
TitleOf(part) ==
    LET spaced == [k \in 1..Len(part) |-> IF part[k] = 45 THEN 32 ELSE part[k]]
        letter(c) == (c >= 97 /\ c <= 122) \/ (c >= 65 /\ c <= 90)
    IN  [k \in 1..Len(spaced) |->
            IF ~letter(spaced[k]) THEN spaced[k]
            ELSE IF k = 1 \/ ~letter(spaced[k - 1])
                 THEN (IF spaced[k] >= 97 THEN spaced[k] - 32 ELSE spaced[k])
                 ELSE Lower(spaced[k])]

\* smart_extractor.extract_tags_categories: the results it can return
ExtractTagsCategories(page) ==
    LET tags == ShortTexts(page.tagLinks)
        categories == ShortTexts(page.catLinks)
    IN  {[tags |-> Head_(t, SmartMaxTags), categories |-> Head_(c, SmartMaxCategories)] :
            t \in SetOrders(tags), c \in SetOrders(categories)}

\* modern_extractor.extract_tags_and_categories
ExtractTagsAndCategories(page) ==
    LET
        sections == {<<110, 101, 119, 115>>,
                     <<98, 108, 111, 103>>,
                     <<97, 114, 116, 105, 99, 108, 101, 115>>,
                     <<112, 111, 115, 116, 115>>,
                     <<97, 117, 116, 111, 109, 111, 116, 105, 118, 101>>,
                     <<108, 117, 120, 117, 114, 121>>,
                     <<118, 101, 104, 105, 99, 108, 101, 115>>,
                     <<112, 101, 114, 115, 111, 110, 97, 108, 45, 105, 110, 106, 117, 114, 121>>}
        \* news, blog, articles, posts, automotive, luxury, vehicles, personal-injury
        tags == ShortTexts(page.tagLinks)
        inSection == ShortTexts(page.catLinks)
        RECURSIVE addNew(_, _)
        addNew(texts, acc) ==
            IF texts = <<>> THEN acc
            ELSE addNew(Tail(texts),
                        IF \E k \in 1..Len(acc) : acc[k] = Head(texts)
                        THEN acc ELSE Append(acc, Head(texts)))
        byHref == IF inSection # <<>> THEN inSection
                  ELSE addNew(ShortTexts(Head_(page.categoryHrefLinks, 3)), <<>>)
        parts == SelectSeq(SplitSlash(page.url), LAMBDA part : part \in sections)
        categories == IF byHref # <<>> THEN byHref
                      ELSE IF parts # <<>> THEN <<TitleOf(parts[1])>>
                      ELSE <<>>
    IN  [tags |-> tags, categories |-> categories]

\* the texts of the links of a page
LinkTexts ==
    {<<97>>, <<98>>, <<32, 97>>, <<>>, [k \in 1..MaxLabelLen |-> 120]}

LabelPages ==
    LET
        u1 == <<104, 116, 116, 112, 115, 58, 47, 47, 104, 47, 98, 108, 111, 103, 47, 120>>   \* 'https://h/blog/x'
        u2 == <<104, 116, 116, 112, 115, 58, 47, 47, 104, 47, 120>>   \* 'https://h/x'
    IN  [tagLinks : PieceSeqs(LinkTexts, MaxLinks),
         catLinks : PieceSeqs(LinkTexts, MaxLinks),
         categoryHrefLinks : PieceSeqs({<<98>>}, MaxLinks),
         url : {u1, u2}]

LabelsInit == callFn = "input" /\ callArg \in LabelPages /\ callRet = <<>>

\* tags, categories = extract_tags_categories(soup)
SmartExtractsLabels ==
    /\ callFn = "input"
    /\ callFn' = "extract_tags_categories"
    /\ callRet' \in ExtractTagsCategories(callArg)
    /\ UNCHANGED <<callArg, coreVars, docVars, sesVars>>

\* tags, categories = extract_tags_and_categories(soup, url)
ModernExtractsLabels ==
    /\ callFn = "input"
    /\ callFn' = "extract_tags_and_categories"
    /\ callRet' = ExtractTagsAndCategories(callArg)
    /\ UNCHANGED <<callArg, coreVars, docVars, sesVars>>

LabelsNext == SmartExtractsLabels \/ ModernExtractsLabels
LabelsStart == LabelsInit /\ CoreIdle /\ DocIdle /\ SesIdle
SpecLabels == LabelsStart /\ [][LabelsNext]_vars

--------------------------------------------------------------------------
(* SpecSession: the request handlers of modern_app.py on one session.      *)
(* app.run serves every request in a thread of its own; a handler is a     *)
(* sequence of steps, one for each access to the session's urls and posts  *)
(* and one for each blocking call, and the steps of different requests     *)
(* interleave.                                                             *)

Threads == 1..MaxThreads

\* a thread that serves no request; input is the list data['urls'] as it was
\* when the loop of migrate began, kept for the statements
IdleRequest(resp) ==
    [handler |-> "idle", pc |-> "idle", index |-> 0, url |-> 0, posts |-> <<>>,
     results |-> <<>>, input |-> <<>>, resp |-> resp]

\* app_data[session_id] as get_session_data creates it
SessionInit ==
    /\ sesData = [urls |-> <<>>, posts |-> <<>>, status |-> "ready"]
    /\ sesReq = [t \in Threads |-> IdleRequest("")]

\* list.pop(index) / del list[index], index 0-based
PopAt(list, index) == SubSeq(list, 1, index) \o SubSeq(list, index + 2, Len(list))

\* the 0-based index of the first post with the title, -1 when there is none
FindPost(posts, title) ==
    LET hits == {k \in 1..Len(posts) : posts[k].title = title}
    IN  IF hits = {} THEN -1 ELSE (CHOOSE k \in hits : \A j \in hits : k <= j) - 1

\* a request arrives: a thread starts the handler of its route with
\* data = get_session_data() and the fields of the request
Accept(t, handler, index, url) ==
    /\ sesReq[t].handler = "idle"
    /\ sesReq' = [sesReq EXCEPT ![t] =
                    [handler |-> handler, pc |-> "begin", index |-> index, url |-> url,
                     posts |-> <<>>, results |-> <<>>, input |-> <<>>, resp |-> ""]]
    /\ UNCHANGED <<sesData, coreVars, docVars, callVars>>

\* add_single_url: data['urls'].append(new_url)
AddSingleUrl(t) ==
    /\ sesReq[t].handler = "add_single_url" /\ sesReq[t].pc = "begin"
    /\ Len(sesData.urls) < MaxSessionUrls
    /\ sesData' = [sesData EXCEPT !.urls = Append(sesData.urls, sesReq[t].url)]
    /\ sesReq' = [sesReq EXCEPT ![t] = IdleRequest("200")]
    /\ UNCHANGED <<coreVars, docVars, callVars>>

\* delete_url and update_url: if 0 <= index < len(data['urls'])
CheckIndex(t) ==
    /\ sesReq[t].handler \in {"delete_url", "update_url"} /\ sesReq[t].pc = "begin"
    /\ sesReq' = [sesReq EXCEPT ![t] =
                    IF sesReq[t].index < Len(sesData.urls)
                    THEN [sesReq[t] EXCEPT !.pc = "checked"]
                    ELSE IdleRequest("400")]
    /\ UNCHANGED <<sesData, coreVars, docVars, callVars>>

\* delete_url: data['urls'].pop(index); an index past the end raises
\* IndexError, which the server answers with status 500
DeleteUrl(t) ==
    /\ sesReq[t].handler = "delete_url" /\ sesReq[t].pc = "checked"
    /\ IF sesReq[t].index < Len(sesData.urls)
       THEN /\ sesData' = [sesData EXCEPT !.urls = PopAt(sesData.urls, sesReq[t].index)]
            /\ sesReq' = [sesReq EXCEPT ![t] = IdleRequest("200")]
       ELSE /\ sesReq' = [sesReq EXCEPT ![t] = IdleRequest("500")]
            /\ UNCHANGED sesData
    /\ UNCHANGED <<coreVars, docVars, callVars>>

\* update_url: data['urls'][index] = new_url
UpdateUrl(t) ==
    /\ sesReq[t].handler = "update_url" /\ sesReq[t].pc = "checked"
    /\ IF sesReq[t].index < Len(sesData.urls)
       THEN /\ sesData' = [sesData EXCEPT !.urls[sesReq[t].index + 1] = sesReq[t].url]
            /\ sesReq' = [sesReq EXCEPT ![t] = IdleRequest("200")]
       ELSE /\ sesReq' = [sesReq EXCEPT ![t] = IdleRequest("500")]
            /\ UNCHANGED sesData
    /\ UNCHANGED <<coreVars, docVars, callVars>>

\* migrate: if not data.get('urls'): return ..., 400; data['status'] =
\* 'processing'; posts = []; the for loop takes its iterator of data['urls']
MigrateBegin(t) ==
    /\ sesReq[t].handler = "migrate" /\ sesReq[t].pc = "begin"
    /\ IF sesData.urls = <<>>
       THEN /\ sesReq' = [sesReq EXCEPT ![t] = IdleRequest("400")]
            /\ UNCHANGED sesData
       ELSE /\ sesReq' = [sesReq EXCEPT ![t] = [@ EXCEPT !.pc = "loop", !.index = 0,
                                                         !.input = sesData.urls]]
            /\ sesData' = [sesData EXCEPT !.status = "processing"]
    /\ UNCHANGED <<coreVars, docVars, callVars>>

\* migrate: for url in data['urls'], one step of the list iterator
MigrateNextUrl(t) ==
    /\ sesReq[t].handler = "migrate" /\ sesReq[t].pc = "loop"
    /\ sesReq' = [sesReq EXCEPT ![t] =
                    IF sesReq[t].index < Len(sesData.urls)
                    THEN [sesReq[t] EXCEPT !.pc = "extract",
                                           !.url = sesData.urls[sesReq[t].index + 1],
                                           !.index = sesReq[t].index + 1]
                    ELSE [sesReq[t] EXCEPT !.pc = "store"]]
    /\ UNCHANGED <<sesData, coreVars, docVars, callVars>>

\* migrate: post = extract_blog_post(url), the blocking fetch of one page;
\* if post: posts.append(post), and results.append(...) with the status
MigrateExtract(t) ==
    /\ sesReq[t].handler = "migrate" /\ sesReq[t].pc = "extract"
    /\ \E ok \in BOOLEAN :
          sesReq' = [sesReq EXCEPT ![t] =
                       [sesReq[t] EXCEPT
                           !.pc = "loop",
                           !.results = Append(sesReq[t].results,
                                              [url |-> sesReq[t].url, success |-> ok]),
                           !.posts = IF ok
                                     THEN Append(sesReq[t].posts,
                                                 [title |-> sesReq[t].url, content |-> "original"])
                                     ELSE sesReq[t].posts]]
    /\ UNCHANGED <<sesData, coreVars, docVars, callVars>>

\* migrate: data['posts'] = posts; data['status'] = 'completed' if posts
\* else 'failed'
MigrateStore(t) ==
    /\ sesReq[t].handler = "migrate" /\ sesReq[t].pc = "store"
    /\ sesData' = [sesData EXCEPT
                      !.posts = sesReq[t].posts,
                      !.status = IF sesReq[t].posts # <<>> THEN "completed" ELSE "failed"]
    /\ sesReq' = [sesReq EXCEPT ![t] = IdleRequest("200")]
    /\ UNCHANGED <<coreVars, docVars, callVars>>

\* apply_replace with one change of the preview selected: for idx, post in
\* enumerate(data['posts']): if post['title'] == change['post_title']
ApplyFindPost(t) ==
    /\ sesReq[t].handler = "apply_replace" /\ sesReq[t].pc = "begin"
    /\ sesReq' = [sesReq EXCEPT ![t] =
                    IF FindPost(sesData.posts, sesReq[t].url) = -1
                    THEN IdleRequest("200")
                    ELSE [sesReq[t] EXCEPT !.pc = "found",
                                           !.index = FindPost(sesData.posts, sesReq[t].url)]]
    /\ UNCHANGED <<sesData, coreVars, docVars, callVars>>

\* apply_replace: data['posts'][post_index]['content'] = modified_content;
\* an IndexError is caught and answered with success: False
ApplyWrite(t) ==
    /\ sesReq[t].handler = "apply_replace" /\ sesReq[t].pc = "found"
    /\ IF sesReq[t].index < Len(sesData.posts)
       THEN /\ sesData' = [sesData EXCEPT !.posts[sesReq[t].index + 1].content = "replaced"]
            /\ sesReq' = [sesReq EXCEPT ![t] = IdleRequest("200")]
       ELSE /\ sesReq' = [sesReq EXCEPT ![t] = IdleRequest("error")]
            /\ UNCHANGED sesData
    /\ UNCHANGED <<coreVars, docVars, callVars>>

SessionNext ==
    \E t \in Threads :
        \/ Accept(t, "migrate", 0, 0)
        \/ \E url \in Urls : Accept(t, "add_single_url", 0, url)
        \/ \E index \in 0..(MaxSessionUrls - 1) : Accept(t, "delete_url", index, 0)
        \/ \E index \in 0..(MaxSessionUrls - 1), url \in Urls : Accept(t, "update_url", index, url)
        \/ \E title \in Urls : Accept(t, "apply_replace", 0, title)
        \/ AddSingleUrl(t)
        \/ CheckIndex(t)
        \/ DeleteUrl(t)
        \/ UpdateUrl(t)
        \/ MigrateBegin(t)
        \/ MigrateNextUrl(t)
        \/ MigrateExtract(t)
        \/ MigrateStore(t)
        \/ ApplyFindPost(t)
        \/ ApplyWrite(t)

SessionStart == SessionInit /\ CoreIdle /\ DocIdle /\ CallIdle
SpecSession == SessionStart /\ [][SessionNext]_vars

--------------------------------------------------------------------------
(* SpecMalformed: pages with hrefs that urlparse rejects, through the      *)
(* extraction methods that classify and rewrite the links.                 *)

MalformedPages ==
    LET
        s1 == <<104, 116, 116, 112, 115, 58, 47, 47, 104, 47, 112>>   \* 'https://h/p'
        g1 == <<104, 116, 116, 112, 115, 58, 47, 47, 104, 47, 97>>   \* 'https://h/a'
        g2 == <<47, 97>>   \* '/a'
        m1 == <<104, 116, 116, 112, 58, 47, 47, 91, 120>>   \* 'http://[x'
        m2 == <<104, 116, 116, 112, 115, 58, 47, 47, 104, 93, 47, 97>>   \* 'https://h]/a'
        m3 == <<47, 47, 91, 120>>   \* '//[x'
        s2 == <<104, 116, 116, 112, 115, 58, 47, 47, 120, 47, 112>>   \* 'https://x/p'
    IN  [source : {s1, s2}, hrefs : PieceSeqs({g1, g2, m1, m2, m3}, MaxAnchors)]

MalformedInit == callFn = "input" /\ callArg \in MalformedPages /\ callRet = <<>>

\* modern_extractor.extract_blog_post: hyperlinks =
\* extract_hyperlinks_from_content(...), processed_content =
\* convert_internal_links_to_relative(clean_html, url)
ModernExtractsLinks ==
    /\ callFn = "input"
    /\ callFn' = "extract_blog_post"
    /\ callRet' = [hyperlinks |-> ExtractHyperlinksFromContent(callArg.hrefs, callArg.source),
                   hrefs |-> ConvertInternalLinksToRelative(callArg.hrefs, callArg.source)]
    /\ UNCHANGED <<callArg, coreVars, docVars, sesVars>>

\* smart_extractor.try_trafilatura: hyperlinks = extract_links(content, url)
\* inside the try of the method; except Exception: return None
SmartExtractsLinks ==
    /\ callFn = "input"
    /\ callFn' = "try_trafilatura"
    /\ callRet' = IF ExtractLinksRaises(callArg.hrefs) THEN NoResult
                  ELSE [hyperlinks |-> ExtractLinks(callArg.hrefs, callArg.source),
                        hrefs |-> callArg.hrefs]
    /\ UNCHANGED <<callArg, coreVars, docVars, sesVars>>

MalformedNext == ModernExtractsLinks \/ SmartExtractsLinks
MalformedStart == MalformedInit /\ CoreIdle /\ DocIdle /\ SesIdle
SpecMalformed == MalformedStart /\ [][MalformedNext]_vars

--------------------------------------------------------------------------
(* SpecCascade: the search for the content region.  A page is, for every   *)
(* selector of the list in order, the length of the text of the node that  *)
(* soup.select_one(selector) returns, NoMatch when it returns None.        *)

NoMatch == -1
MinRegionLen == 100
SmartSelectors == 5
ModernSelectors == 17
BrowserSelectors == 11

\* area and len(area.get_text(strip=True)) > 100
Qualifies(match) == match # NoMatch /\ match > MinRegionLen

\* smart_extractor.find_content_area: the position in the list of the
\* selector whose node is returned, 0 for None
FindContentArea(matches) ==
    LET good == {k \in 1..Len(matches) : Qualifies(matches[k])}
    IN  IF good = {} THEN 0 ELSE CHOOSE k \in good : \A j \in good : k <= j

\* for selector in selectors: content_area = soup.select_one(selector);
\* if content_area and len(...) > 100: break.  The value of content_area
\* after the loop: the position of the selector it came from, 0 for None
RECURSIVE SelectorLoop(_, _, _)
SelectorLoop(matches, k, content_area) ==
    IF k > Len(matches) THEN content_area
    ELSE IF Qualifies(matches[k]) THEN k
    ELSE SelectorLoop(matches, k + 1, IF matches[k] = NoMatch THEN 0 ELSE k)

\* the pages: at most MaxMatches selectors of the list match a node
CascadePages(n) ==
    UNION {{[k \in 1..n |-> IF k \in P THEN f[k] ELSE NoMatch] :
               f \in [P -> {20, MinRegionLen, MinRegionLen + 1}]} :
           P \in {Q \in SUBSET (1..n) : Cardinality(Q) <= MaxMatches}}

CascadeInit ==
    /\ callFn = "input"
    /\ callArg \in CascadePages(SmartSelectors) \cup CascadePages(ModernSelectors)
                     \cup CascadePages(BrowserSelectors)
    /\ callRet = <<>>

\* content_area = find_content_area(soup)
SmartFindsArea ==
    /\ callFn = "input" /\ Len(callArg) = SmartSelectors
    /\ callFn' = "find_content_area"
    /\ callRet' = <<FindContentArea(callArg)>>
    /\ UNCHANGED <<callArg, coreVars, docVars, sesVars>>

\* extract_blog_post, the loop over selectors
ModernFindsArea ==
    /\ callFn = "input" /\ Len(callArg) = ModernSelectors
    /\ callFn' = "extract_blog_post"
    /\ callRet' = <<SelectorLoop(callArg, 1, 0)>>
    /\ UNCHANGED <<callArg, coreVars, docVars, sesVars>>

\* BrowserScraper.extract_content, the loop over content_selectors
BrowserFindsArea ==
    /\ callFn = "input" /\ Len(callArg) = BrowserSelectors
    /\ callFn' = "extract_content"
    /\ callRet' = <<SelectorLoop(callArg, 1, 0)>>
    /\ UNCHANGED <<callArg, coreVars, docVars, sesVars>>

CascadeNext == SmartFindsArea \/ ModernFindsArea \/ BrowserFindsArea
CascadeStart == CascadeInit /\ CoreIdle /\ DocIdle /\ SesIdle
SpecCascade == CascadeStart /\ [][CascadeNext]_vars

--------------------------------------------------------------------------
(* SpecOriginals: one session of modern_app.py from its first migrate on,  *)
(* one request at a time: the find/replace handlers, a new migrate and the *)
(* two downloads.                                                          *)

\* the posts a migrate extracts: none, one post with one or two links, two
\* posts of one title
MigratedLists ==
    { <<>>,
      <<[title |-> "t1", content |-> Anchor(PathO)]>>,
      <<[title |-> "t1", content |-> Anchor(PathO) \o Anchor(PathOI)]>>,
      <<[title |-> "t1", content |-> PathO], [title |-> "t1", content |-> Anchor(PathO)]>> }

\* lines 461-465 of migrate: what the handler stores
MigrateStores(extracted) ==
    /\ appPosts' = [k \in 1..Len(extracted) |->
                      [title |-> extracted[k].title, content |-> extracted[k].content,
                       modified |-> FALSE]]
    /\ appOriginal' = CopyPosts(appPosts')
    /\ appModified' = FALSE

OriginalsInit ==
    /\ \E extracted \in MigratedLists :
         /\ appPosts = [k \in 1..Len(extracted) |->
                          [title |-> extracted[k].title, content |-> extracted[k].content,
                           modified |-> FALSE]]
         /\ appOriginal = CopyPosts(appPosts)
    /\ appPreview = NoPreview
    /\ appGlobal = NoGlobal
    /\ appModified = FALSE
    /\ appResp = [status |-> 0, success |-> FALSE, error |-> "", count |-> 0]
    /\ appRequests = 0
    /\ appDownload = <<>>

\* one more request of the session is served
Counted == appRequests < MaxSessionRequests /\ appRequests' = appRequests + 1

\* POST /api/migrate on a session with URLs
Migrate ==
    /\ Counted
    /\ \E extracted \in MigratedLists :
         /\ MigrateStores(extracted)
         /\ appResp' = Respond(200, TRUE, "", Len(extracted))
    /\ appDownload' = <<>>
    /\ UNCHANGED <<appPreview, appGlobal>>
    /\ UNCHANGED <<serVars, escVars, pidVars, drvVars, exVars, fnVars>>

\* the content:encoded elements of generate_wordpress_xml(posts)
EncodedContents(posts) == [k \in 1..Len(posts) |-> ModernContentEncoded(posts[k].content)]

\* the body of download and download_original on the posts it serializes
Serve(posts) ==
    /\ IF appPosts = <<>>
       THEN /\ appResp' = Respond(400, FALSE, "no posts", 0)
            /\ appDownload' = <<>>
       ELSE /\ appResp' = Respond(200, TRUE, "", Len(posts))
            /\ appDownload' = EncodedContents(posts)
    /\ UNCHANGED <<appPosts, appOriginal, appPreview, appGlobal, appModified, appRequests>>

\* GET /api/download
Download ==
    /\ Serve(appPosts)
    /\ UNCHANGED <<serVars, escVars, pidVars, drvVars, exVars, fnVars>>

\* GET /api/download-original: data.get('original_posts', data['posts'])
DownloadOriginal ==
    /\ Serve(OriginalPosts)
    /\ UNCHANGED <<serVars, escVars, pidVars, drvVars, exVars, fnVars>>

\* the find/replace requests of the session
PreviewRequest ==
    /\ Counted
    /\ \E searchIn \in SearchInputs, replaceIn \in ReplaceInputs, use_regex \in BOOLEAN,
          post_index \in PostIndexes :
         PreviewReplaceWith(searchIn, replaceIn, use_regex, post_index)
ApplyRequest ==
    /\ Counted
    /\ \E selected_elements \in SUBSET (PreviewIds(appPreview.changes) \cup {UnknownId}) :
         ApplyReplaceWith(selected_elements)
GlobalPreviewRequest ==
    /\ Counted
    /\ \E searchIn \in SearchInputs, replaceIn \in ReplaceInputs, use_regex \in BOOLEAN,
          target_post_index \in PostIndexes :
         GlobalPreviewReplaceWith(searchIn, replaceIn, use_regex, target_post_index)
GlobalApplyRequest ==
    /\ Counted
    /\ \E selected_matches \in SUBSET (GlobalIds(appGlobal.matches) \cup {UnknownId}) :
         GlobalApplyReplaceWith(selected_matches)

OriginalsStart == OriginalsInit /\ SerIdle /\ EscIdle /\ PidIdle /\ DrvIdle /\ ExIdle /\ FnIdle
OriginalsNext ==
    \/ Migrate
    \/ PreviewRequest
    \/ ApplyRequest
    \/ GlobalPreviewRequest
    \/ GlobalApplyRequest
    \/ Download
    \/ DownloadOriginal
SpecOriginals == OriginalsStart /\ [][OriginalsNext]_vars

--------------------------------------------------------------------------
(* SpecRecord: the hyperlinks record and the content of one post of        *)
(* modern_extractor.extract_blog_post.  The content area is held as in     *)
(* SpecClean, each anchor with the value of its href.                      *)

\* <a href="{href}">, with text or around an image only
AnchorTo(href, text) ==
    [name |-> "a", attrs |-> {"href"}, text |-> text, kids |-> <<>>, href |-> href]

\* soup.find_all('a', href=True): the hrefs of the anchors of the markup in
\* document order
HrefsOf(root) ==
    LET anchors == SelectSeq(Flatten([b \in 1..Len(root.kids) |-> root.kids[b].kids]),
                             LAMBDA e : e.name = "a" /\ "href" \in e.attrs)
    IN  [k \in 1..Len(anchors) |-> anchors[k].href]

\* the pages: the URL of the page and its content area, a div or an
\* article of paragraphs: with text and a link, with a link around an image
\* only, with text only
RecordPages ==
    LET
        source == <<104, 116, 116, 112, 115, 58, 47, 47, 104, 47, 112>>   \* 'https://h/p'
        h1 == <<104, 116, 116, 112, 115, 58, 47, 47, 104, 47, 97>>   \* 'https://h/a'
        h2 == <<104, 116, 116, 112, 115, 58, 47, 47, 120, 47, 97>>   \* 'https://x/a'
        h3 == <<47, 97>>   \* '/a'
        blocks ==
            { Element("p", {}, TRUE, <<AnchorTo(h, TRUE)>>) : h \in {h1, h2, h3} }
            \cup { Element("p", {}, FALSE, <<AnchorTo(h1, FALSE)>>),
                   Element("p", {}, TRUE, <<>>) }
    IN  [source : {source},
         area : { Element(name, {"class"}, FALSE, kids) :
                    name \in {"div", "article"}, kids \in PieceSeqs(blocks, MaxBlocks) }]

RecordInit == callFn = "input" /\ callArg \in RecordPages /\ callRet = <<>>

\* extract_blog_post, the branch of newspaper3k with a content area: the
\* links are taken from str(content_area) (lines 97-101), the content is
\* the clean HTML after convert_internal_links_to_relative (lines 109-248)
NewspaperRecordsLinks ==
    /\ callFn = "input"
    /\ callFn' = "newspaper3k"
    /\ callRet' = [hyperlinks |-> ExtractHyperlinksFromContent(HrefsOf(callArg.area), callArg.source),
                   anchors |-> ConvertInternalLinksToRelative(
                                   HrefsOf(ModernCleanHtml(callArg.area)), callArg.source)]
    /\ UNCHANGED <<callArg, coreVars, docVars, sesVars>>

\* extract_blog_post, the branch of trafilatura: the links are taken from
\* wrapped_content and the content is wrapped_content after
\* convert_internal_links_to_relative (lines 342-349)
TrafilaturaRecordsLinks ==
    /\ callFn = "input"
    /\ callFn' = "trafilatura"
    /\ callRet' = [hyperlinks |-> ExtractHyperlinksFromContent(HrefsOf(callArg.area), callArg.source),
                   anchors |-> ConvertInternalLinksToRelative(HrefsOf(callArg.area), callArg.source)]
    /\ UNCHANGED <<callArg, coreVars, docVars, sesVars>>

RecordNext == NewspaperRecordsLinks \/ TrafilaturaRecordsLinks
RecordStart == RecordInit /\ CoreIdle /\ DocIdle /\ SesIdle
SpecRecord == RecordStart /\ [][RecordNext]_vars

--------------------------------------------------------------------------
(* SpecDates: a batch of accepted posts of smart_extractor through         *)
(* generate_wordpress_xml_fixed, with the date each method stores.  A date *)
(* is None, a datetime or a str (trafilatura's metadata.date is the text   *)
(* of a date, article.publish_date and extract_date give a datetime).      *)

NoDate == [kind |-> "None"]
SomeDatetime == [kind |-> "datetime"]
DateText == [kind |-> "str", text |-> <<50, 48, 50, 52, 45, 48, 51, 45, 48, 53>>]   \* '2024-03-05'

\* a or b
PyOr(a, b) == IF a = NoDate \/ (a.kind = "str" /\ a.text = <<>>) THEN b ELSE a

\* try_trafilatura: 'date': metadata.date or extract_date(soup)
TrafilaturaDate(page) == PyOr(page.metadata_date, page.soup_date)

\* try_newspaper3k: 'date': article.publish_date or extract_date(soup)
NewspaperDate(page) == PyOr(page.publish_date, page.soup_date)

\* the accepted pages of a batch: the method that accepted the page and
\* what the page gives each source of a date
DatedPages ==
    [method : {"trafilatura"}, metadata_date : {NoDate, DateText},
     publish_date : {NoDate}, soup_date : {NoDate, SomeDatetime}]
    \cup [method : {"newspaper3k"}, metadata_date : {NoDate},
          publish_date : {NoDate, SomeDatetime}, soup_date : {NoDate, SomeDatetime}]

\* posts: the records batch_extract collects
AcceptedPosts(pages) ==
    [k \in 1..Len(pages) |->
       [title |-> <<116>>, url |-> <<104, 116, 116, 112, 58, 47, 47, 104, 47, 97>>,
        author |-> <<85, 110, 107, 110, 111, 119, 110>>, slug |-> <<116>>,
        content |-> <<60, 112, 62, 120, 60, 47, 112, 62>>, categories |-> <<>>, tags |-> <<>>,
        date |-> IF pages[k].method = "trafilatura" THEN TrafilaturaDate(pages[k])
                 ELSE NewspaperDate(pages[k])]]

\* post['date'].strftime raises AttributeError: the date of a post is a
\* str (lines 47-48 and 58-59 of fixed_extractor.py)
StrftimeRaises(posts) == \E k \in 1..Len(posts) : posts[k].date.kind = "str"

DatesInit ==
    /\ callFn = "input"
    /\ callArg \in PieceSeqs(DatedPages, MaxBatch) \ {<<>>}
    /\ callRet = <<>>

\* batch_extract: xml_content = generate_wordpress_xml_fixed(posts)
BatchSerializes ==
    /\ callFn = "input"
    /\ callFn' = "generate_wordpress_xml_fixed"
    /\ LET posts == AcceptedPosts(callArg)
       IN  IF StrftimeRaises(posts)
           THEN callRet' = [raised |-> "AttributeError", xml |-> <<>>]
           ELSE \E h \in DocHashes(posts) :
                  callRet' = [raised |-> "",
                              xml |-> GenerateWordpressXmlFixed(
                                          [k \in 1..Len(posts) |->
                                             [posts[k] EXCEPT !.date = (@ = SomeDatetime)]], h)]
    /\ UNCHANGED <<callArg, coreVars, docVars, sesVars>>

DatesNext == BatchSerializes
DatesStart == DatesInit /\ CoreIdle /\ DocIdle /\ SesIdle
SpecDates == DatesStart /\ [][DatesNext]_vars

--------------------------------------------------------------------------
(* Statements about the serializers.                                       *)

\* the allowed ranges as the statements name them
XmlAllowed(c) ==
    c \in {9, 10, 13} \/ c \in 32..55295 \/ c \in 57344..65533 \/ c \in 65536..1114111

AllowedOnly(s) == SelectSeq(s, XmlAllowed)

NotSpace(c) == c # ChSpace
WithoutSpaces(s) == SelectSeq(s, NotSpace)

\* a is b with some elements left out: a[lo..hi] matched greedily in b from
\* position `from` on ends before Reach, which is past Len(b) + 1 if it fails
IsSubsequence(a, b) ==
    LET RECURSIVE Reach(_, _, _)
        Reach(lo, hi, from) ==
            IF lo > hi THEN from
            ELSE IF lo = hi
                 THEN LET hits == { j \in from..Len(b) : b[j] = a[lo] }
                      IN  IF hits = {} THEN Len(b) + 2
                          ELSE (CHOOSE j \in hits : \A k \in hits : j <= k) + 1
            ELSE LET left == Reach(lo, (lo + hi) \div 2, from)
                 IN  IF left > Len(b) + 1 THEN left
                     ELSE Reach((lo + hi) \div 2 + 1, hi, left)
    IN  Reach(1, Len(a), 1) <= Len(b) + 1

\* s with a space put before the '>' of every occurrence of ]]>
TerminatorsBroken(s) ==
    Flatten([i \in 1..Len(s) |->
        IF i >= 3 /\ StartsWithAt(s, i - 2, CdataEnd) THEN <<ChSpace, s[i]>> ELSE <<s[i]>>])

Entities == {EntAmp, EntLt, EntGt, EntQuot, EntApos}

EntityChar(e) ==
    CASE e = EntAmp -> ChAmp
      [] e = EntLt -> ChLt
      [] e = EntGt -> ChGt
      [] e = EntQuot -> ChQuot
      [] e = EntApos -> ChApos

RECURSIVE DecodeFrom(_, _)
\* one pass of entity decoding, left to right
DecodeFrom(s, i) ==
    IF i > Len(s) THEN <<>>
    ELSE IF \E e \in Entities : StartsWithAt(s, i, e)
         THEN LET e == CHOOSE x \in Entities : StartsWithAt(s, i, x)
              IN  <<EntityChar(e)>> \o DecodeFrom(s, i + Len(e))
         ELSE <<s[i]>> \o DecodeFrom(s, i + 1)

DecodeOnce(s) == DecodeFrom(s, 1)

\* C6: whichever serializer ran, the text of the literal block is the post's
\* content without its disallowed characters, up to the spaces that break a
\* terminator: no markup character of the content is entity-escaped.
C6_BodyNeverEscaped ==
    serPc \in {"fixed", "modern"} =>
        WithoutSpaces(serElem.body) = WithoutSpaces(AllowedOnly(serContent))

\* C7: the text clean_content_for_cdata returns holds no ]]>, and it is the
\* stripped content with every ]]> turned into "]] >".
C7_NoTerminatorInCdata ==
    serPc = "fixed" =>
        /\ ~Contains(serElem.body, CdataEnd)
        /\ serElem.cdata
        /\ serElem.body = TerminatorsBroken(AllowedOnly(serContent))

\* a terminator that only the stripping brings together has been broken up
C7_Witness ==
    /\ serPc = "fixed"
    /\ ~Contains(serContent, CdataEnd)
    /\ Contains(serElem.body, CdataEndBroken)

\* C8: escape_xml_text leaves no raw < > " ', every & of its output starts
\* one of the five entities, and decoding the output once gives the input.
C8_EscapedExactlyOnce ==
    escPc = "done" =>
        /\ \A i \in 1..Len(escOut) : escOut[i] \notin {ChLt, ChGt, ChQuot, ChApos}
        /\ \A i \in 1..Len(escOut) :
              escOut[i] = ChAmp => \E e \in Entities : StartsWithAt(escOut, i, e)
        /\ DecodeOnce(escOut) = escText

\* a text that already reads as an entity, next to a raw '<'
C8_Witness ==
    /\ escPc = "done"
    /\ Contains(escText, EntLt)
    /\ Contains(escText, <<ChLt>>)
    /\ Contains(escOut, EntAmp)

\* C9 as stated: the cleaned content of either serializer holds only allowed
\* code points and keeps every allowed character of the input, in order.
C9_KeepsAllowedChars ==
    serPc \in {"fixed", "modern"} =>
        /\ \A i \in 1..Len(serClean) : XmlAllowed(serClean[i])
        /\ IsSubsequence(AllowedOnly(serContent), serClean)

\* C9 amended: either cleaning leaves only allowed code points; it is
\* clean_content_for_cdata that keeps every allowed character, in order.
C9_OnlyAllowedCodePoints ==
    /\ serPc \in {"fixed", "modern"} =>
          \A i \in 1..Len(serClean) : XmlAllowed(serClean[i])
    /\ serPc = "fixed" => IsSubsequence(AllowedOnly(serContent), serClean)

\* a content with a surrogate and a control character beside kept text
C9_Witness ==
    /\ serPc = "fixed"
    /\ \E i \in 1..Len(serContent) : serContent[i] \in 55296..57343
    /\ \E i \in 1..Len(serContent) : serContent[i] = ChX
    /\ Len(serClean) < Len(serContent)

\* C10: the wp:post_id written for a URL is the same whenever and in
\* whichever process the URL is serialized.
C10_PostIdStable ==
    \A a \in pidEmitted, b \in pidEmitted : a.url = b.url => a.id = b.id

--------------------------------------------------------------------------
(* Statements about the batch drivers.                                     *)

\* C1: in every driver a per-URL step that fails does not end the run: the
\* loop goes on to the last URL and the run reaches its summary.
C1_FailureNeverAborts ==
    /\ drvPc # "aborted"
    /\ drvPc = "summary" => drvIdx = Len(drvUrls)

--------------------------------------------------------------------------
(* Statements about the extraction entry points.                           *)

\* C2: once smart_extractor.extract_blog_post has returned, the second
\* method was attempted exactly when the first result failed the gate, the
\* second method worked on the document the first one worked on, and with
\* both results failing the gate nothing is returned.
C2_FallbackOnSameInput ==
    (exEntry = "smart" /\ exPc = "returned") =>
        /\ (Len(exFetch) = 2) <=> ~IsGoodQuality(exResult1)
        /\ (Len(exFetch) = 2 /\ exFetch[1] # 0 /\ exFetch[2] # 0) => exFetch[2] = exFetch[1]
        /\ (~IsGoodQuality(exResult1) /\ ~IsGoodQuality(exResult2)) => exReturn = NoResult

\* C3: every post in the batch of any entry point passes the acceptance
\* predicate: title longer than 5 and shorter than 200, content over the
\* threshold, content with markup.
C3_BatchPassesGate ==
    \A i \in 1..Len(exBatch) : IsGoodQuality(exBatch[i])

--------------------------------------------------------------------------
(* Statements about the find/replace handlers.                             *)

\* the start tag with the value of its href replaced
WithHref(tag, href) ==
    LET from == StrFind(tag, HrefOpen, 0) + Len(HrefOpen)
        to == StrFind(tag, <<ChQuot>>, from)
    IN  Slice(tag, 0, from) \o href \o Slice(tag, to, Len(tag))

RECURSIVE RewriteFrom(_, _, _)
\* the content with the hrefs of the chosen links, pairs <<token, href>>,
\* replaced and every other byte as it is
RewriteFrom(toks, k, chosen) ==
    IF k > Len(toks) THEN <<>>
    ELSE (IF \E c \in chosen : c[1] = k
            THEN WithHref(toks[k].s, (CHOOSE c \in chosen : c[1] = k)[2])
            ELSE toks[k].s)
         \o RewriteFrom(toks, k + 1, chosen)

OnlyHrefsChanged(content, chosen) == RewriteFrom(SoupTokens(content), 1, chosen)

\* the links of post p (1-based) that a selection of preview elements names
ChosenByPreview(p, selected) ==
    { <<appPreview.changes[i].elements[k].tok, appPreview.changes[i].elements[k].new_href>> :
        <<i, k>> \in { ik \in (1..Len(appPreview.changes)) \X (1..MaxNodes) :
                         /\ ik[2] <= Len(appPreview.changes[ik[1]].elements)
                         /\ appPreview.changes[ik[1]].post_index = p - 1
                         /\ <<ik[1] - 1, ik[2] - 1>> \in selected } }

\* the links of post p (1-based) that a selection of global matches names
ChosenByGlobal(p, selected) ==
    { <<appGlobal.matches[g].matches[m].tok, appGlobal.matches[g].matches[m].replacement>> :
        <<g, m>> \in { gm \in (1..Len(appGlobal.matches)) \X (1..MaxNodes) :
                         /\ gm[2] <= Len(appGlobal.matches[gm[1]].matches)
                         /\ appGlobal.matches[gm[1]].post_index = p - 1
                         /\ <<p - 1, gm[2] - 1>> \in selected } }

\* the stored preview / matches are those of the posts as they are now
PreviewFresh ==
    /\ appPreview.present
    /\ \E index \in PostIndexes :
         appPreview.changes = PreviewChangesFrom(appPosts, 1, index, appPreview.search, appPreview.replace)
GlobalFresh ==
    /\ appGlobal.present
    /\ \E index \in PostIndexes :
         appGlobal.matches = GlobalMatchesFrom(appPosts, 1, index, appGlobal.search, appGlobal.replace)

\* C4: an apply request that succeeds on a preview of the present posts
\* leaves every post's content as it was but for the href values of
\* selected anchors, which become the previewed new hrefs: no unselected
\* anchor, image, text or other post differs.
C4_OnlySelectedHrefsChange ==
    [][ /\ \A selected \in SUBSET (PreviewIds(appPreview.changes) \cup {UnknownId}) :
             (PreviewFresh /\ ApplyReplaceWith(selected) /\ appResp'.success) =>
                 \A p \in 1..Len(appPosts) :
                     \E changed \in SUBSET ChosenByPreview(p, selected) :
                         appPosts'[p].content = OnlyHrefsChanged(appPosts[p].content, changed)
        /\ \A selected \in SUBSET (GlobalIds(appGlobal.matches) \cup {UnknownId}) :
             (GlobalFresh /\ GlobalApplyReplaceWith(selected) /\ appResp'.success) =>
                 \A p \in 1..Len(appPosts) :
                     \E changed \in SUBSET ChosenByGlobal(p, selected) :
                         appPosts'[p].content = OnlyHrefsChanged(appPosts[p].content, changed)
      ]_vars

\* C5: a preview request with use_regex set and a search pattern that does
\* not compile is answered with an error, and leaves the posts, the stored
\* preview, the stored matches and the modification flag as they were.
C5_MalformedRegexRejected ==
    [][ \A searchIn \in SearchInputs, replaceIn \in ReplaceInputs, index \in PostIndexes :
          ( /\ RegexError(Strip(searchIn))
            /\ \/ PreviewReplaceWith(searchIn, replaceIn, TRUE, index)
               \/ GlobalPreviewReplaceWith(searchIn, replaceIn, TRUE, index) )
          => /\ ~appResp'.success
             /\ UNCHANGED <<appPosts, appPreview, appGlobal, appModified>>
      ]_vars

--------------------------------------------------------------------------
(* Statements about the document of a batch.                               *)

RECURSIVE ElementStarts(_, _, _)
\* the positions, from i on, where the markup pat starts outside the CDATA
\* sections of the document
ElementStarts(doc, pat, i) ==
    LET t == FindFrom(doc, pat, i)
        c == FindFrom(doc, CdataOpen, i)
    IN  IF t = -1 THEN <<>>
        ELSE IF c # -1 /\ c < t
             THEN LET e == FindFrom(doc, CdataEnd, c + 1 + Len(CdataOpen))
                  IN  IF e = -1 THEN <<>> ELSE ElementStarts(doc, pat, e + 1 + Len(CdataEnd))
             ELSE <<t + 1>> \o ElementStarts(doc, pat, t + 1 + Len(pat))

ItemOpen == <<60, 105, 116, 101, 109, 62>>   \* <item>
ItemTitleOpen == <<60, 105, 116, 101, 109, 62, 10, 60, 116, 105, 116, 108, 101, 62>>   \* <item>\n<title>
TitleClose == <<60, 47, 116, 105, 116, 108, 101, 62>>   \* </title>
RssOpen == <<60, 114, 115, 115, 32>>   \* <rss
ChannelOpen == <<60, 99, 104, 97, 110, 110, 101, 108, 62>>   \* <channel>
ChannelClose == <<60, 47, 99, 104, 97, 110, 110, 101, 108, 62>>   \* </channel>

\* C11: for every non-empty batch, the document generate_wordpress_xml_fixed
\* returns has one rss root and one channel, and the channel holds exactly
\* one item per post of the batch, in batch order (the i-th item opens with
\* the escaped title of the i-th post), also when posts share URL or title.
C11_OneItemPerPost ==
    (docPc = "fixed" /\ docPosts # <<>>) =>
        LET items == ElementStarts(docXml, ItemOpen, 1)
            roots == ElementStarts(docXml, RssOpen, 1)
            channels == ElementStarts(docXml, ChannelOpen, 1)
            closes == ElementStarts(docXml, ChannelClose, 1)
        IN  /\ Len(roots) = 1
            /\ Len(channels) = 1
            /\ Len(closes) = 1
            /\ roots[1] < channels[1]
            /\ Len(items) = Len(docPosts)
            /\ \A i \in 1..Len(items) :
                  /\ channels[1] < items[i] /\ items[i] < closes[1]
                  /\ StartsWithAt(docXml, items[i],
                                  ItemTitleOpen \o EscapeXmlText(docPosts[i].title) \o TitleClose)

\* a batch of two equal posts whose title and content read as an item
C11_Witness ==
    /\ docPc = "fixed"
    /\ Len(docPosts) = 2
    /\ docPosts[1] = docPosts[2]
    /\ docPosts[1].title = ItemOpen
    /\ Contains(docPosts[1].content, ItemOpen)
    /\ Len(ElementStarts(docXml, ItemOpen, 1)) = 2

NicenameOpen == <<110, 105, 99, 101, 110, 97, 109, 101, 61, 34>>   \* nicename="

\* the nicename the specification derives from a label: lowercased, spaces
\* to hyphens, '&' to 'and', every other character outside [a-z0-9-] removed
UrlSafeNicename(label) ==
    SelectSeq(StrReplace(StrReplace(LowerStr(label), <<ChSpace>>, <<45>>), <<ChAmp>>, <<97, 110, 100>>),
              IsSlugChar)

\* the values of the nicename attributes of the document, in document order
NicenamesOf(doc) ==
    LET starts == ElementStarts(doc, NicenameOpen, 1)
    IN  [k \in 1..Len(starts) |->
            LET from == starts[k] + Len(NicenameOpen)
            IN  SubSeq(doc, from, FindFrom(doc, <<ChQuot>>, from))]

\* the category and tag labels of the batch
LabelsOf(posts) ==
    Flatten([i \in 1..Len(posts) |-> posts[i].categories \o posts[i].tags])

\* C12: whichever serializer wrote the document, it holds one nicename per
\* category and tag label of the batch, each the URL-safe form of its label
\* (lowercased, spaces to hyphens, '&' to 'and', the rest outside [a-z0-9-]
\* removed), so every nicename consists of characters of [a-z0-9-] only.
C12_NicenameUrlSafe ==
    (docPc \in {"fixed", "modern"}) =>
        LET names == NicenamesOf(docXml)
            labels == LabelsOf(docPosts)
            wanted == [k \in 1..Len(labels) |-> UrlSafeNicename(labels[k])]
        IN  /\ Len(names) = Len(labels)
            /\ \A k \in 1..Len(names) : \A j \in 1..Len(names[k]) : IsSlugChar(names[k][j])
            /\ \A k \in 1..Len(names) :
                  Cardinality({ j \in 1..Len(names) : names[j] = names[k] })
                      = Cardinality({ j \in 1..Len(wanted) : wanted[j] = names[k] })

--------------------------------------------------------------------------
(* Statements about the fields of a post.                                  *)

\* C13: the slug of every produced post is non-empty, consists of characters
\* of [a-z0-9-] only and is at most 50 characters long, whichever extractor
\* derived it (smart_extractor from the title, modern_extractor and
\* browser_scraper from the URL path).
C13_SlugWellFormed ==
    (callFn \in {"smart_slug", "modern_slug", "browser_slug"}) =>
        /\ callRet # <<>>
        /\ \A j \in 1..Len(callRet) : IsSlugChar(callRet[j])
        /\ Len(callRet) <= MaxSlugLen

\* the elements of a content: the written elements, their children and the
\* children of those
ElementsOf(content) ==
    LET below(es) == UNION { { e.kids[k] : k \in 1..Len(e.kids) } : e \in es }
        top == { content[k] : k \in 1..Len(content) }
    IN  top \cup below(top) \cup below(below(top))

\* C14: the content of every produced post holds no script or style element
\* and no attribute other than href on anchors and src/alt on images; this
\* includes the wrapper element the extractor adds, the top-level block
\* elements, anchors without href and images without src.
C14_ContentClean ==
    (callFn \in {"modern_content", "browser_content"}) =>
        \A e \in ElementsOf(callRet) :
            /\ e.name \notin {"script", "style"}
            /\ e.attrs \subseteq (IF e.name = "a" THEN {"href"}
                                  ELSE IF e.name = "img" THEN {"src", "alt"}
                                  ELSE {})

--------------------------------------------------------------------------
(* Statements about the URL list.                                          *)

\* the lines of a file that are URLs: trimmed, not blank, not starting with
\* '#', in file order
UrlLinesOf(lines) ==
    SelectSeq([k \in 1..Len(lines) |-> Strip(lines[k])],
              LAMBDA line : line # <<>> /\ line[1] # 35)

\* C15: every loader ignores blank lines and lines that begin with '#' after
\* the trimming it applies to the URL itself, and returns every other line
\* as exactly one URL, in file order; no ignored line becomes a URL.
C15_LoaderIgnoresComments ==
    (callFn \in {"load_urls_from_file", "run_scraper", "scraper_main"}) =>
        callRet = UrlLinesOf(callArg)

--------------------------------------------------------------------------
(* Statements about the hyperlinks.                                        *)

\* the host of a URL, for comparison
HostOf(url) == LowerStr(UrlParse(url).netloc)

\* an anchor is internal when its href has a host and the host is the one
\* of the source URL, letter case aside
IsInternalHref(href, source) == HostOf(href) # <<>> /\ HostOf(href) = HostOf(source)

\* C16: after convert_internal_links_to_relative every anchor that was
\* internal carries an href without host component: parsing the rewritten
\* href as a URL yields no host, whatever path, query and fragment the
\* original link had.
C16_RewrittenHasNoHost ==
    (callFn = "convert_internal_links_to_relative") =>
        \A k \in 1..Len(callRet) :
            IsInternalHref(callArg.hrefs[k], callArg.source) => HostOf(callRet[k]) = <<>>

\* C17: convert_internal_links_to_relative changes the href of internal
\* anchors only: for every source URL, one without a host or with a host in
\* another letter case included, the href of every external and of every
\* relative anchor is the same before and after.
C17_OnlyInternalRewritten ==
    (callFn = "convert_internal_links_to_relative") =>
        /\ Len(callRet) = Len(callArg.hrefs)
        /\ \A k \in 1..Len(callRet) :
              ~IsInternalHref(callArg.hrefs[k], callArg.source) => callRet[k] = callArg.hrefs[k]


\* the anchors a classifier has to class: the hrefs, trimmed, that are
\* neither empty nor a fragment
ClassedHrefs(hrefs) ==
    SelectSeq([k \in 1..Len(hrefs) |-> Strip(hrefs[k])],
              LAMBDA href : href # <<>> /\ href[1] # 35)

\* the class of an anchor: relative without host, internal with the host
\* of the source URL (letter case aside), external otherwise
ClassOfHref(href, source) ==
    IF HostOf(href) = <<>> THEN "relative"
    ELSE IF HostOf(href) = HostOf(source) THEN "internal"
    ELSE "external"

\* the url fields of a list of links
UrlsOf(links) == [k \in 1..Len(links) |-> links[k].url]

\* C20: both classifiers (extract_hyperlinks_from_content and
\* extract_links) put every anchor with a non-empty href that is no
\* fragment into exactly one class: relative when the href has no host,
\* internal when its host is the host of the source URL compared without
\* regard to letter case, external otherwise, with that host recorded;
\* scheme-relative hrefs and hosts in another letter case included.
C20_ClassifierByHost ==
    (callFn \in {"extract_hyperlinks_from_content", "extract_links"}) =>
        LET anchors == ClassedHrefs(callArg.hrefs)
            of(c) == SelectSeq(anchors, LAMBDA href : ClassOfHref(href, callArg.source) = c)
        IN  /\ UrlsOf(callRet.relative_links) = of("relative")
            /\ UrlsOf(callRet.internal_links) = of("internal")
            /\ UrlsOf(callRet.external_links) = of("external")
            /\ \A k \in 1..Len(callRet.external_links) :
                  LowerStr(callRet.external_links[k].domain)
                      = HostOf(callRet.external_links[k].url)

--------------------------------------------------------------------------
(* Statements about the labels of a post.                                  *)

\* the labels of a page in the order of their discovery: the texts of the
\* links in page order, each at its first occurrence
RECURSIVE FirstOccurrences(_, _)
FirstOccurrences(texts, seen) ==
    IF texts = <<>> THEN <<>>
    ELSE IF Head(texts) \in seen THEN FirstOccurrences(Tail(texts), seen)
    ELSE <<Head(texts)>> \o FirstOccurrences(Tail(texts), seen \cup {Head(texts)})

\* a sequence of labels without repetition, each shorter than 50 characters
DistinctShortLabels(labels) ==
    /\ \A i, j \in 1..Len(labels) : labels[i] = labels[j] => i = j
    /\ \A i \in 1..Len(labels) : Len(labels[i]) < MaxLabelLen

\* labels found in the links of a section are a prefix of the section's
\* labels in discovery order
InDiscoveryOrder(labels, links) ==
    LET found == FirstOccurrences(ShortTexts(links), {})
    IN  found # <<>> =>
            /\ Len(labels) <= Len(found)
            /\ labels = SubSeq(found, 1, Len(labels))

\* C18: the tags and the categories of a post are sequences without
\* repeated labels, each label shorter than 50 characters, in the order in
\* which the labels were discovered in the page, for
\* extract_tags_categories and for extract_tags_and_categories.
C18_LabelsDeduplicatedInOrder ==
    (callFn \in {"extract_tags_categories", "extract_tags_and_categories"}) =>
        /\ DistinctShortLabels(callRet.tags)
        /\ DistinctShortLabels(callRet.categories)
        /\ InDiscoveryOrder(callRet.tags, callArg.tagLinks)
        /\ InDiscoveryOrder(callRet.categories, callArg.catLinks)

--------------------------------------------------------------------------
(* Statements about the session.                                           *)

\* a handler between its first and its last access to the session's urls
\* and posts
MidHandler(t) == sesReq[t].pc \in {"checked", "loop", "extract", "store", "found"}

\* C19: no shared state is touched by two requests at a time: in every
\* interleaving of requests on one session (two migrate requests, a migrate
\* with a URL add, delete or update, or with a find/replace apply), no two
\* handlers are between their first and last access to the session's urls
\* and posts at the same time.
C19_NoOverlappingHandlers ==
    \A t1, t2 \in DOMAIN sesReq : t1 # t2 => ~(MidHandler(t1) /\ MidHandler(t2))


\* the hrefs of a page, trimmed, that urlparse rejects
MalformedHrefs(hrefs) ==
    SelectSeq(ClassedHrefs(hrefs), LAMBDA href : UrlParseRaises(href))

\* C21: an href that fails URL parsing is classified as relative and never
\* raises past the classifier: the extraction method still produces the
\* post, and every such href of the page is among its relative links.
C21_MalformedHrefIsRelative ==
    (callFn \in {"extract_blog_post", "try_trafilatura"}) =>
        /\ callRet # NoResult
        /\ \A k \in 1..Len(MalformedHrefs(callArg.hrefs)) :
              \E j \in 1..Len(callRet.hyperlinks.relative_links) :
                  callRet.hyperlinks.relative_links[j].url = MalformedHrefs(callArg.hrefs)[k]

--------------------------------------------------------------------------
(* Statements about the content region.                                    *)

\* C22: the selector cascade returns the match of the first selector, in
\* list order, whose node has more than 100 characters of text, and 'not
\* found' when no selector has such a match: the region is never a node
\* with 100 or fewer characters and never the match of a later selector
\* when an earlier one qualified.
C22_FirstQualifyingMatch ==
    (callFn \in {"find_content_area", "extract_blog_post", "extract_content"}
        /\ Len(callArg) \in {SmartSelectors, ModernSelectors, BrowserSelectors}) =>
        LET good == {k \in 1..Len(callArg) : callArg[k] > MinRegionLen}
        IN  IF good = {} THEN callRet[1] = 0
            ELSE callRet[1] \in good /\ \A j \in good : callRet[1] <= j

--------------------------------------------------------------------------
(* Statements about duplicate removal.                                     *)

\* the fingerprints of a content, in document order: the text of every
\* paragraph and the markup of every list
RECURSIVE FingerprintsFrom(_, _)
FingerprintsFrom(toks, k) ==
    IF k > Len(toks) THEN <<>>
    ELSE IF StartTagName(toks[k]) = TagP
         THEN <<[kind |-> "p", print |-> TokensText(toks, k, ElementEnd(toks, k + 1, TagP))]>>
              \o FingerprintsFrom(toks, k + 1)
    ELSE IF StartTagName(toks[k]) \in {TagUl, TagOl}
         THEN <<[kind |-> "list",
                 print |-> TokensStr(toks, k, ElementEnd(toks, k + 1, StartTagName(toks[k])), {})]>>
              \o FingerprintsFrom(toks, k + 1)
    ELSE FingerprintsFrom(toks, k + 1)

Fingerprints(content) == FingerprintsFrom(SoupTokens(content), 1)

\* fingerprints that duplicate removal looks at: lists, and paragraphs of
\* more than 50 characters
Tracked(f) == f.kind = "list" \/ Len(f.print) > MinDupParagraph

\* C23: duplicate removal keeps exactly the first occurrence of each
\* fingerprint: in the content of every post as it is serialized, no list
\* markup and no paragraph text of more than 50 characters occurs twice,
\* every fingerprint of the extracted content is still there, and the
\* paragraphs of 50 characters or fewer are all kept.
C23_FirstOccurrenceKept ==
    (serPc \in {"fixed", "modern"}) =>
        LET before == Fingerprints(KeepValidChars(FixEmptyHrefs(serContent)))
            after == Fingerprints(serClean)
        IN  /\ \A i, j \in 1..Len(after) :
                  (Tracked(after[i]) /\ after[i] = after[j]) => i = j
            /\ \A i \in 1..Len(before) : \E j \in 1..Len(after) : after[j] = before[i]
            /\ Len(SelectSeq(after, LAMBDA f : ~Tracked(f)))
                  = Len(SelectSeq(before, LAMBDA f : ~Tracked(f)))

--------------------------------------------------------------------------
(* Statements about a batch run.                                           *)

\* C24: in a batch run a delay lies between the fetches of two consecutive
\* URLs: the extraction of URL i+1 is directly preceded by the sleep that
\* follows URL i, whether URL i gave a post or not, and no sleep follows
\* the last URL.
C24_DelayBetweenFetches ==
    \A k \in 1..Len(drvLog) :
        /\ (drvLog[k][1] = "extract" /\ drvLog[k][2] > 1) =>
               (k > 1 /\ drvLog[k - 1] = <<"sleep", drvLog[k][2] - 1>>)
        /\ (drvLog[k][1] = "sleep") => drvLog[k][2] < Len(drvUrls)


\* the URLs of the results of a migrate, in order
ResultUrls(results) == [k \in 1..Len(results) |-> results[k].url]

\* C25: at the end of a batch run every URL of the input list is accounted
\* for exactly once, as the source of one post or as one failed entry, in
\* the order of the list: for batch_extract and the scraper main the posts
\* and the failed URLs together are the input list, and the results of a
\* migrate are the list its loop began with.
C25_EveryUrlAccounted ==
    /\ (drvPc = "summary" /\ drvKind \in {"batch_extract", "scraper_main"}) =>
           /\ Len(drvPosts) + Len(drvFailed) = Len(drvUrls)
           /\ IsSubsequence(drvPosts, drvUrls) /\ IsSubsequence(drvFailed, drvUrls)
    /\ \A t \in DOMAIN sesReq :
           (sesReq[t].handler = "migrate" /\ sesReq[t].pc = "store") =>
               /\ ResultUrls(sesReq[t].results) = sesReq[t].input
               /\ sesReq[t].posts =
                     [k \in 1..Len(sesReq[t].posts) |->
                         [title |-> SelectSeq(sesReq[t].results, LAMBDA r : r.success)[k].url,
                          content |-> "original"]]

--------------------------------------------------------------------------
(* Statements about the original posts and the stored previews.            *)

\* the contents of a list of posts
ContentsOf(posts) == [k \in 1..Len(posts) |-> posts[k].content]

C28_ApplyActsOnPreviewedPosts ==
    [][ /\ \A selected \in SUBSET (PreviewIds(appPreview.changes) \cup {UnknownId}) :
             (ApplyReplaceWith(selected) /\ appPosts' # appPosts) =>
                 /\ PreviewFresh
                 /\ \A p \in 1..Len(appPosts) :
                      appPosts'[p] # appPosts[p] =>
                          \E i \in 1..Len(appPreview.changes) :
                              /\ appPreview.changes[i].post_index = p - 1
                              /\ \E id \in selected : id[1] = i - 1
        /\ \A selected \in SUBSET (GlobalIds(appGlobal.matches) \cup {UnknownId}) :
             (GlobalApplyReplaceWith(selected) /\ ContentsOf(appPosts') # ContentsOf(appPosts)) =>
                 /\ GlobalFresh
                 /\ \A p \in 1..Len(appPosts) :
                      appPosts'[p].content # appPosts[p].content =>
                          \E g \in 1..Len(appGlobal.matches) :
                              /\ appGlobal.matches[g].post_index = p - 1
                              /\ \E id \in selected : id[1] = p - 1
      ]_vars

--------------------------------------------------------------------------
(* Statements about the hyperlinks record of a post.                       *)

\* the href each listed link has in the content: the relative URL for an
\* internal link, the URL for the others
ListedHrefs(hyperlinks) ==
    [k \in 1..Len(hyperlinks.internal_links) |-> hyperlinks.internal_links[k].relative_url]
    \o [k \in 1..Len(hyperlinks.external_links) |-> hyperlinks.external_links[k].url]
    \o [k \in 1..Len(hyperlinks.relative_links) |-> hyperlinks.relative_links[k].url]

TimesIn(seq, v) == Len(SelectSeq(seq, LAMBDA x : x = v))

\* C29: in a post of modern_extractor.extract_blog_post the listed links
\* and the anchors of the content are the same links: every href occurs
\* among the listed links (an internal one as its relative URL) as often as
\* among the anchors of the content.
C29_RecordAgreesWithContent ==
    callFn \in {"newspaper3k", "trafilatura"} =>
        \A v \in {ListedHrefs(callRet.hyperlinks)[k] : k \in 1..Len(ListedHrefs(callRet.hyperlinks))}
                 \cup {callRet.anchors[k] : k \in 1..Len(callRet.anchors)} :
            TimesIn(ListedHrefs(callRet.hyperlinks), v) = TimesIn(callRet.anchors, v)

--------------------------------------------------------------------------
(* Statements about the dates of a batch.                                  *)

\* C30: generate_wordpress_xml_fixed returns a document for every batch of
\* accepted posts, whatever the extractors stored as the date of a post:
\* None, a datetime, or the text of a date from trafilatura's metadata.
C30_SerializerTotal ==
    callFn = "generate_wordpress_xml_fixed" =>
        /\ callRet.raised = ""
        /\ callRet.xml # <<>>

====
